---- MODULE Spec2Model ----
(***************************************************************************)
(* NL-to-SQL backend: the SQL validator, the limit enforcer and the /query *)
(* request pipeline (backend/validator.py, backend/main.py), the schema    *)
(* registry (backend/schema_registry.py), the grammar compiler             *)
(* (backend/cfg.py) and the grammar cache (backend/llm.py).                *)
(*                                                                         *)
(* A SQL text is a sequence of lexemes.  A lexeme is a string that is      *)
(* either made of word characters only (keywords, identifiers, digit       *)
(* strings) or of non-word characters only (whitespace, punctuation,       *)
(* comment markers), so that the regular expressions of the code (\b, \s,  *)
(* \d, comment patterns) can be evaluated lexeme by lexeme.                *)
(***************************************************************************)
EXTENDS Integers, Sequences, FiniteSets, TLC

VARIABLES
    pc,             \* position of the running call / request handler
    sql,            \* the SQL text under processing (argument `sql`)
    default_limit,  \* get_default_limit(schema_name)
    max_limit,      \* get_max_limit(schema_name)
    is_valid,       \* first component returned by validate_sql
    errors,         \* list of violations returned by validate_sql
    raised,         \* exception propagated out of the running call, or "none"
    ok,             \* first component returned by enforce_limit
    limited_sql,    \* text returned by enforce_limit
    limit_errors,   \* list of violations returned by enforce_limit
    run_args,       \* texts run_query was called with by the current request
    response,       \* response of the /query handler
    gen_sql,        \* gen_result["sql"] of the current request
    rate_limit_store,     \* _rate_limit_store: IP -> list of timestamps
    now,                  \* time.time()
    rate_limit_requests,  \* RATE_LIMIT_REQUESTS, read from the environment
    rate_limit_window,    \* RATE_LIMIT_WINDOW, read from the environment
    accepted,       \* history kept in SpecRate: per client, the times of its
                    \* last accepted requests
    files,          \* the schema files on disk: path -> content
    _schema_cache,  \* schema_registry._schema_cache: schema name -> definition
    _cached_grammar,  \* llm._cached_grammar: schema name -> grammar text
    _cached_tool,   \* llm._cached_tool: schema name -> tool definition
    call,           \* the registry or grammar call made last
    result,         \* what that call returned or raised
    opened,         \* the files that call opened
    grammar_log,    \* grammars compiled since the cache last changed
    request_pc,     \* position of a request in its use of the schema
    handed,         \* grammar handed to the text generator by the request
    checked,        \* whitelist the validator of the request checked
    thread_pc,      \* position of each thread inside get_schema
    thread_local,   \* value a thread has read from the file, not yet stored
    observed        \* what get_schema returned to each thread

limitVars == <<default_limit, max_limit>>
validateVars == <<is_valid, errors, raised>>
enforceVars == <<ok, limited_sql, limit_errors>>
rateVars == <<rate_limit_store, now, rate_limit_requests, rate_limit_window,
              accepted>>
requestVars == <<run_args, response, gen_sql>>

registryVars == <<files, _schema_cache>>
grammarVars == <<_cached_grammar, _cached_tool, grammar_log>>
callVars == <<call, result, opened>>
sliceVars == <<request_pc, handed, checked>>
threadVars == <<thread_pc, thread_local, observed>>
schemaVars == <<registryVars, grammarVars, callVars, sliceVars, threadVars>>

vars == <<pc, sql, limitVars, validateVars, enforceVars, requestVars, rateVars,
          schemaVars>>

-----------------------------------------------------------------------------
(* Bounds *)

\* longest input, counted in phrases
MaxParts == 3

\* integers read from a text are exact below this value
IntCap == 1000000

\* longest generated SQL of a request, counted in phrases
MaxQueryParts == 2

\* seconds the clock advances in one step, and the last instant modelled
TickSeconds == 30
MaxTime == 60

-----------------------------------------------------------------------------
(* Lexemes: character classes and case conversion *)

DigitLexemes == {"5", "7", "100", "1000", "5000"}

WordLexemes ==
    {"SELECT", "select", "FROM", "from", "LIMIT", "limit", "Limit",
     "DROP", "drop", "TABLE", "UNION", "SYSTEM", "system",
     "trips", "TRIPS", "users", "payment_type", "PAYMENT_TYPE", "ssn",
     "b", "B", "x",
     "tpep_pickup_datetime", "fare_amount", "events", "ts", "kind",
     "count", "sum", "avg", "min", "max", "NONE"}

\* \w : the lexeme consists of word characters
IsWord(l) == l \in WordLexemes \cup DigitLexemes

\* \s : the lexeme is whitespace
IsSpace(l) == l \in {" ", "\n"}

\* \d+ : the lexeme is a string of digits
IsDigits(l) == l \in DigitLexemes

\* str.upper()
Upper(l) ==
    CASE l \in {"select", "SELECT"} -> "SELECT"
      [] l \in {"from", "FROM"} -> "FROM"
      [] l \in {"limit", "Limit", "LIMIT"} -> "LIMIT"
      [] l \in {"drop", "DROP"} -> "DROP"
      [] l \in {"system", "SYSTEM"} -> "SYSTEM"
      [] l \in {"trips", "TRIPS"} -> "TRIPS"
      [] l = "users" -> "USERS"
      [] l \in {"payment_type", "PAYMENT_TYPE"} -> "PAYMENT_TYPE"
      [] l = "ssn" -> "SSN"
      [] l \in {"b", "B"} -> "B"
      [] l = "x" -> "X"
      [] l = "tpep_pickup_datetime" -> "TPEP_PICKUP_DATETIME"
      [] l = "fare_amount" -> "FARE_AMOUNT"
      [] l = "events" -> "EVENTS"
      [] l = "ts" -> "TS"
      [] l = "kind" -> "KIND"
      [] l = "count" -> "COUNT"
      [] l = "sum" -> "SUM"
      [] l = "avg" -> "AVG"
      [] l = "min" -> "MIN"
      [] l = "max" -> "MAX"
      [] OTHER -> l

\* str.lower()
Lower(l) ==
    CASE l \in {"select", "SELECT"} -> "select"
      [] l \in {"from", "FROM"} -> "from"
      [] l \in {"limit", "Limit", "LIMIT"} -> "limit"
      [] l \in {"drop", "DROP"} -> "drop"
      [] l \in {"system", "SYSTEM"} -> "system"
      [] l = "TABLE" -> "table"
      [] l = "UNION" -> "union"
      [] l \in {"trips", "TRIPS"} -> "trips"
      [] l \in {"payment_type", "PAYMENT_TYPE"} -> "payment_type"
      [] l \in {"b", "B"} -> "b"
      [] l = "NONE" -> "none"
      [] OTHER -> l

UpperText(s) == [i \in 1..Len(s) |-> Upper(s[i])]

\* int() of one digit lexeme
DigitValue(l) ==
    CASE l = "5" -> 5
      [] l = "7" -> 7
      [] l = "100" -> 100
      [] l = "1000" -> 1000
      [] l = "5000" -> 5000

\* number of characters of one digit lexeme
DigitCount(l) ==
    CASE l \in {"5", "7"} -> 1
      [] l = "100" -> 3
      [] l \in {"1000", "5000"} -> 4

RECURSIVE Pow10(_)
Pow10(n) == IF n = 0 THEN 1 ELSE 10 * Pow10(n - 1)

\* int() of a run of adjacent digit lexemes.  Python integers are unbounded;
\* the value is only ever compared with max_limit, so it is kept exact below
\* IntCap and held at IntCap from there on.
RECURSIVE IntOf(_)
IntOf(ds) ==
    IF ds = <<>> THEN 0
    ELSE LET hi == IntOf(SubSeq(ds, 1, Len(ds) - 1))
             p  == Pow10(DigitCount(ds[Len(ds)]))
         IN  IF hi >= IntCap \div p THEN IntCap
             ELSE hi * p + DigitValue(ds[Len(ds)])

\* str() of an integer, as an f-string formats it
Str(n) ==
    CASE n = 5 -> "5"
      [] n = 7 -> "7"
      [] n = 100 -> "100"
      [] n = 1000 -> "1000"
      [] n = 5000 -> "5000"

-----------------------------------------------------------------------------
(* _strip_comments: re.sub(r"(--[^\n]*|/\*.*?\*/)", " ", sql), DOTALL *)

\* first index >= i holding lexeme l, or Len(s) + 1
IndexFrom(s, i, l) ==
    IF \E j \in i..Len(s) : s[j] = l
    THEN CHOOSE j \in i..Len(s) :
            s[j] = l /\ \A k \in i..(j - 1) : s[k] # l
    ELSE Len(s) + 1

RECURSIVE StripFrom(_, _)
StripFrom(s, i) ==
    IF i > Len(s) THEN <<>>
    ELSE IF s[i] = "--"
         THEN <<" ">> \o StripFrom(s, IndexFrom(s, i + 1, "\n"))
    ELSE IF s[i] = "/*" /\ IndexFrom(s, i + 1, "*/") <= Len(s)
         THEN <<" ">> \o StripFrom(s, IndexFrom(s, i + 1, "*/") + 1)
    ELSE <<s[i]>> \o StripFrom(s, i + 1)

_strip_comments(s) == StripFrom(s, 1)

-----------------------------------------------------------------------------
(* str.strip() and str.rstrip(";") *)

RECURSIVE LStrip(_)
LStrip(s) ==
    IF s # <<>> /\ IsSpace(s[1]) THEN LStrip(Tail(s)) ELSE s

RECURSIVE RStrip(_)
RStrip(s) ==
    IF s # <<>> /\ IsSpace(s[Len(s)])
    THEN RStrip(SubSeq(s, 1, Len(s) - 1))
    ELSE s

strip(s) == RStrip(LStrip(s))

RECURSIVE rstrip_semicolon(_)
rstrip_semicolon(s) ==
    IF s # <<>> /\ s[Len(s)] = ";"
    THEN rstrip_semicolon(SubSeq(s, 1, Len(s) - 1))
    ELSE s

-----------------------------------------------------------------------------
(* The pattern \blimit\s+(\d+)\b with re.IGNORECASE *)

\* index after the longest run of whitespace lexemes starting at j
RECURSIVE SpaceRunEnd(_, _)
SpaceRunEnd(s, j) ==
    IF j <= Len(s) /\ IsSpace(s[j]) THEN SpaceRunEnd(s, j + 1) ELSE j

\* index after the longest run of digit lexemes starting at j
RECURSIVE DigitRunEnd(_, _)
DigitRunEnd(s, j) ==
    IF j <= Len(s) /\ IsDigits(s[j]) THEN DigitRunEnd(s, j + 1) ELSE j

\* variant of LimitMatchEnd: the pattern \blimit\s*(\d+)\b
LimitMatchEnd_OptionalSpace(s, i) ==
    LET j == SpaceRunEnd(s, i + 1)
        k == DigitRunEnd(s, j)
    IN  IF /\ Lower(s[i]) = "limit"
           /\ (i = 1 \/ ~IsWord(s[i - 1]))
           /\ k > j
           /\ (k > Len(s) \/ ~IsWord(s[k]))
        THEN k
        ELSE 0

\* the pattern matches at lexeme i: index after the match, else 0
LimitMatchEnd(s, i) ==
    LET j == SpaceRunEnd(s, i + 1)
        k == DigitRunEnd(s, j)
    IN  IF /\ Lower(s[i]) = "limit"
           /\ (i = 1 \/ ~IsWord(s[i - 1]))
           /\ j > i + 1
           /\ k > j
           /\ (k > Len(s) \/ ~IsWord(s[k]))
        THEN k
        ELSE 0

\* variant of LimitSearch: start of the rightmost match, else 0
LimitSearch_Last(s) ==
    IF \E i \in 1..Len(s) : LimitMatchEnd(s, i) > 0
    THEN CHOOSE i \in 1..Len(s) :
            LimitMatchEnd(s, i) > 0
            /\ \A h \in (i + 1)..Len(s) : LimitMatchEnd(s, h) = 0
    ELSE 0

\* re.search: start of the leftmost match, else 0
LimitSearch(s) ==
    IF \E i \in 1..Len(s) : LimitMatchEnd(s, i) > 0
    THEN CHOOSE i \in 1..Len(s) :
            LimitMatchEnd(s, i) > 0
            /\ \A h \in 1..(i - 1) : LimitMatchEnd(s, h) = 0
    ELSE 0

\* group(1) of the match starting at i
LimitGroup1(s, i) ==
    SubSeq(s, SpaceRunEnd(s, i + 1), LimitMatchEnd(s, i) - 1)

\* re.sub without count: every non-overlapping match, left to right
RECURSIVE LimitSubAllFrom(_, _, _)
LimitSubAllFrom(s, i, repl) ==
    IF i > Len(s) THEN <<>>
    ELSE IF LimitMatchEnd(s, i) > 0
         THEN repl \o LimitSubAllFrom(s, LimitMatchEnd(s, i), repl)
         ELSE <<s[i]>> \o LimitSubAllFrom(s, i + 1, repl)

LimitSub(s, repl) == LimitSubAllFrom(s, 1, repl)

-----------------------------------------------------------------------------
(* enforce_limit *)

CleanedForLimit(text) == rstrip_semicolon(strip(_strip_comments(text)))

\* variant of enforce_limit: a limit above max_limit is a violation
enforce_limit_Rejecting(text, dflt, mx) ==
    LET cleaned_sql == CleanedForLimit(text)
        limit_match == LimitSearch(cleaned_sql)
    IN  IF limit_match = 0
        THEN [ok |-> TRUE,
              sql |-> cleaned_sql \o <<" ", "LIMIT", " ", Str(dflt)>>,
              errors |-> <<>>]
        ELSE IF IntOf(LimitGroup1(cleaned_sql, limit_match)) > mx
        THEN [ok |-> FALSE,
              sql |-> cleaned_sql,
              errors |-> <<"LIMIT exceeds maximum">>]
        ELSE [ok |-> TRUE, sql |-> cleaned_sql, errors |-> <<>>]

\* variant of enforce_limit: a limit above max_limit is left in place and
\* LIMIT <max_limit> is appended
enforce_limit_Appending(text, dflt, mx) ==
    LET cleaned_sql == CleanedForLimit(text)
        limit_match == LimitSearch(cleaned_sql)
    IN  IF limit_match = 0
        THEN [ok |-> TRUE,
              sql |-> cleaned_sql \o <<" ", "LIMIT", " ", Str(dflt)>>,
              errors |-> <<>>]
        ELSE IF IntOf(LimitGroup1(cleaned_sql, limit_match)) > mx
        THEN [ok |-> TRUE,
              sql |-> cleaned_sql \o <<" ", "LIMIT", " ", Str(mx)>>,
              errors |-> <<>>]
        ELSE [ok |-> TRUE, sql |-> cleaned_sql, errors |-> <<>>]

enforce_limit(text, dflt, mx) ==
    LET cleaned_sql == CleanedForLimit(text)
        limit_match == LimitSearch(cleaned_sql)
    IN  IF limit_match = 0
        THEN [ok |-> TRUE,
              sql |-> cleaned_sql \o <<" ", "LIMIT", " ", Str(dflt)>>,
              errors |-> <<>>]
        ELSE IF IntOf(LimitGroup1(cleaned_sql, limit_match)) > mx
        THEN [ok |-> TRUE,
              sql |-> LimitSub(cleaned_sql, <<"LIMIT", " ", Str(mx)>>),
              errors |-> <<>>]
        ELSE [ok |-> TRUE, sql |-> cleaned_sql, errors |-> <<>>]

-----------------------------------------------------------------------------
(* Schema sources: the JSON documents a schema file may hold               *)

\* one entry of "columns"; flags absent from the source read as false and
\* an absent allowed_values list as the empty list
ColumnDef(name, type, flags, allowed_values) ==
    [name |-> name, type |-> type,
     aggregatable |-> "aggregatable" \in flags,
     groupable |-> "groupable" \in flags,
     filterable |-> "filterable" \in flags,
     is_datetime |-> "is_datetime" \in flags,
     allowed_values |-> allowed_values]

\* the schema shipped as backend/schema.json
TripsSchema ==
    [table |-> "trips",
     columns |->
        << ColumnDef("tpep_pickup_datetime", "DateTime",
                     {"filterable", "is_datetime"}, <<>>),
           ColumnDef("payment_type", "UInt8", {"groupable", "filterable"}, <<>>),
           ColumnDef("fare_amount", "Float64", {"aggregatable"}, <<>>) >>,
     datetime_column |-> "tpep_pickup_datetime",
     supported_aggregates |-> <<"count", "sum", "avg", "min", "max">>,
     default_limit |-> 100,
     max_limit |-> 1000]

EventsColumns ==
    << ColumnDef("ts", "DateTime", {"filterable", "is_datetime"}, <<>>),
       ColumnDef("kind", "String", {"groupable", "filterable"}, <<"click">>) >>

\* a second schema: no aggregatable column, default_limit left to the default
EventsSchema ==
    [table |-> "events",
     columns |-> EventsColumns,
     datetime_column |-> "ts",
     supported_aggregates |-> <<"count">>,
     max_limit |-> 1000]

\* a schema with a default_limit and no max_limit
EventsOnlyDefaultLimit ==
    [table |-> "events",
     columns |-> EventsColumns,
     datetime_column |-> "ts",
     supported_aggregates |-> <<"count">>,
     default_limit |-> 5000]

\* a schema naming a datetime_column that is no column, without limits
EventsWrongDatetime ==
    [table |-> "events",
     columns |-> EventsColumns,
     datetime_column |-> "created_at",
     supported_aggregates |-> <<"count">>]

\* a JSON object without the "table" key
EventsNoTable ==
    [columns |-> EventsColumns,
     datetime_column |-> "ts",
     supported_aggregates |-> <<"count">>]

JsonFile(value) == [kind |-> "json", value |-> value]

\* a file that does not exist, and one whose text is not JSON
MissingFile == [kind |-> "missing"]
GarbageFile == [kind |-> "garbage"]

FileContents ==
    { MissingFile, GarbageFile, JsonFile(TripsSchema), JsonFile(EventsSchema),
      JsonFile(EventsOnlyDefaultLimit), JsonFile(EventsWrongDatetime),
      JsonFile(EventsNoTable) }

-----------------------------------------------------------------------------
(* schema_registry: the cache, load_schema, get_schema and the accessors.  *)
(* A call is evaluated on a cache and yields the cache it leaves, the      *)
(* exception it raised or "none", the value it returned and the files it   *)
(* opened.                                                                 *)

DEFAULT_SCHEMA == "default"

SchemaNames == {DEFAULT_SCHEMA, "other"}

\* the path argument None, and the path arguments a caller passes
NoPath == <<>>
EmptyPath == <<"">>
AltPath == <<"alt.json">>
PathArgs == {NoPath, EmptyPath, AltPath}

\* `if path:` is true for a non-empty string only
_resolve_schema_path(name, path) ==
    IF path # NoPath /\ path # EmptyPath THEN path
    ELSE IF name = DEFAULT_SCHEMA THEN <<"schema.json">>
    ELSE <<"schemas", "/", name, ".json">>

FilePaths ==
    { _resolve_schema_path(n, p) : n \in SchemaNames, p \in PathArgs }

Outcome(cache, exc, value, paths) ==
    [cache |-> cache, raised |-> exc, value |-> value, opened |-> paths]

NoValue == <<>>

\* _schema_cache[name] = value
CacheStore(cache, name, value) ==
    [n \in DOMAIN cache \cup {name} |-> IF n = name THEN value ELSE cache[n]]

\* variant of ReadIntoCache: a failed read drops the entry of the name
ReadIntoCache_Dropping(cache, name, schema_path) ==
    IF files[schema_path].kind = "missing"
    THEN Outcome([n \in DOMAIN cache \ {name} |-> cache[n]],
                 "FileNotFoundError", NoValue, <<schema_path>>)
    ELSE IF files[schema_path].kind = "garbage"
    THEN Outcome([n \in DOMAIN cache \ {name} |-> cache[n]],
                 "JSONDecodeError", NoValue, <<schema_path>>)
    ELSE Outcome(CacheStore(cache, name, files[schema_path].value), "none",
                 files[schema_path].value, <<schema_path>>)

\* open(schema_path) and json.load(f), then the assignment to the cache
ReadIntoCache(cache, name, schema_path) ==
    IF files[schema_path].kind = "missing"
    THEN Outcome(cache, "FileNotFoundError", NoValue, <<schema_path>>)
    ELSE IF files[schema_path].kind = "garbage"
    THEN Outcome(cache, "JSONDecodeError", NoValue, <<schema_path>>)
    ELSE Outcome(CacheStore(cache, name, files[schema_path].value), "none",
                 files[schema_path].value, <<schema_path>>)

\* variant of load_schema: the file is read on every call
load_schema_Always(cache, name, path) ==
    ReadIntoCache(cache, name, _resolve_schema_path(name, path))

load_schema(cache, name, path) ==
    IF name \in DOMAIN cache /\ path = NoPath
    THEN Outcome(cache, "none", cache[name], <<>>)
    ELSE ReadIntoCache(cache, name, _resolve_schema_path(name, path))

get_schema(cache, name) ==
    IF name \notin DOMAIN cache
    THEN load_schema(cache, name, NoPath)
    ELSE Outcome(cache, "none", cache[name], <<>>)

\* get_schema(name)[key]
SchemaItem(cache, name, key) ==
    IF get_schema(cache, name).raised # "none" THEN get_schema(cache, name)
    ELSE IF key \notin DOMAIN get_schema(cache, name).value
    THEN [get_schema(cache, name) EXCEPT !.raised = "KeyError", !.value = NoValue]
    ELSE [get_schema(cache, name) EXCEPT !.value = @[key]]

\* get_schema(name).get(key, default)
SchemaItemOr(cache, name, key, default) ==
    IF get_schema(cache, name).raised # "none" THEN get_schema(cache, name)
    ELSE IF key \notin DOMAIN get_schema(cache, name).value
    THEN [get_schema(cache, name) EXCEPT !.value = default]
    ELSE [get_schema(cache, name) EXCEPT !.value = @[key]]

get_table_name(cache, name) == SchemaItem(cache, name, "table")

get_columns(cache, name) == SchemaItem(cache, name, "columns")

\* [f(col) for col in cols if keep(col)]
ColumnsWhere(cols, keep(_), f(_)) ==
    [i \in 1..Len(SelectSeq(cols, keep)) |-> f(SelectSeq(cols, keep)[i])]

\* an accessor that lists the names of the columns satisfying keep
ColumnNamesWhere(cache, name, keep(_)) ==
    IF get_columns(cache, name).raised # "none" THEN get_columns(cache, name)
    ELSE [get_columns(cache, name) EXCEPT
            !.value = ColumnsWhere(@, keep, LAMBDA col : col.name)]

get_column_names(cache, name) ==
    ColumnNamesWhere(cache, name, LAMBDA col : TRUE)

get_aggregatable_columns(cache, name) ==
    ColumnNamesWhere(cache, name, LAMBDA col : col.aggregatable)

get_groupable_columns(cache, name) ==
    ColumnNamesWhere(cache, name, LAMBDA col : col.groupable)

get_filterable_columns(cache, name) ==
    ColumnNamesWhere(cache, name, LAMBDA col : col.filterable)

get_datetime_column(cache, name) == SchemaItem(cache, name, "datetime_column")

get_datetime_columns(cache, name) ==
    ColumnNamesWhere(cache, name, LAMBDA col : col.is_datetime)

get_supported_aggregates(cache, name) ==
    SchemaItem(cache, name, "supported_aggregates")

\* the first column whose lower-cased name is that of column, or none
ColumnLookup(cols, column) ==
    ColumnsWhere(cols, LAMBDA col : Lower(col.name) = Lower(column),
                 LAMBDA col : col)

\* the column's type, or None (here the empty string) when there is none
get_column_type(cache, column, name) ==
    IF get_columns(cache, name).raised # "none" THEN get_columns(cache, name)
    ELSE [get_columns(cache, name) EXCEPT
            !.value = IF ColumnLookup(@, column) = <<>> THEN ""
                      ELSE ColumnLookup(@, column)[1].type]

\* the column's allowed values, or None (here the empty list)
get_allowed_values(cache, column, name) ==
    IF get_columns(cache, name).raised # "none" THEN get_columns(cache, name)
    ELSE [get_columns(cache, name) EXCEPT
            !.value = IF ColumnLookup(@, column) = <<>> THEN <<>>
                      ELSE ColumnLookup(@, column)[1].allowed_values]

\* the fallbacks of get_default_limit and get_max_limit
DefaultLimitFallback == 100
MaxLimitFallback == 1000

get_default_limit(cache, name) ==
    SchemaItemOr(cache, name, "default_limit", DefaultLimitFallback)

get_max_limit(cache, name) ==
    SchemaItemOr(cache, name, "max_limit", MaxLimitFallback)

\* get_schema_context_for_llm reads these keys of the definition
get_schema_context_for_llm(cache, name) ==
    IF get_schema(cache, name).raised # "none" THEN get_schema(cache, name)
    ELSE IF ~({"table", "columns", "datetime_column", "supported_aggregates",
               "max_limit"} \subseteq DOMAIN get_schema(cache, name).value)
    THEN [get_schema(cache, name) EXCEPT !.raised = "KeyError", !.value = NoValue]
    ELSE get_schema(cache, name)

-----------------------------------------------------------------------------
(* cfg.generate_clickhouse_grammar.  The grammar text is the fixed skeleton *)
(* of cfg.py:77-180 with the schema-dependent terminals filled in; it is   *)
(* held as the record of those terminals, each pattern a lexeme sequence.  *)

\* sep.join(items)
RECURSIVE Join(_, _)
Join(sep, items) ==
    IF items = <<>> THEN <<>>
    ELSE IF Len(items) = 1 THEN <<items[1]>>
    ELSE <<items[1], sep>> \o Join(sep, Tail(items))

\* "|".join(items) if items else "NONE"
PatternOrNone(items) == IF items # <<>> THEN Join("|", items) ELSE <<"NONE">>

\* str.lower() of a column type
TypeLower(type) ==
    CASE type = "DateTime" -> "datetime"
      [] type = "UInt8" -> "uint8"
      [] type = "Float64" -> "float64"
      [] type = "String" -> "string"
      [] type = "INT32" -> "int32"
      [] type = "Decimal(10,2)" -> "decimal(10,2)"
      [] type = "LowCardinality(String)" -> "lowcardinality(string)"
      [] OTHER -> type

\* str.startswith, on the lower-cased column types above
startswith(s, prefixes) ==
    \E prefix \in prefixes :
        <<s, prefix>> \in { <<"string", "string">>, <<"uint8", "uint">>,
                            <<"float64", "float">>, <<"int32", "int">>,
                            <<"decimal(10,2)", "decimal">> }

numeric_types == {"int", "uint", "float", "decimal"}

\* variant of IsFilterableString: the declared type is not looked at
IsFilterableString_AnyType(cache, name, col) ==
    get_allowed_values(cache, col, name).value # <<>>

\* the branch of the loop over filterable that appends col to filterable_string
IsFilterableString(cache, name, col) ==
    /\ get_allowed_values(cache, col, name).value # <<>>
    /\ startswith(TypeLower(get_column_type(cache, col, name).value), {"string"})

\* the branch that appends col to filterable_numeric
IsFilterableNumeric(cache, name, col) ==
    /\ ~IsFilterableString(cache, name, col)
    /\ startswith(TypeLower(get_column_type(cache, col, name).value), numeric_types)

\* filter_values: the allowed values of the filterable string columns, in order
RECURSIVE FilterValues(_, _, _)
FilterValues(cache, name, cols) ==
    IF cols = <<>> THEN <<>>
    ELSE IF IsFilterableString(cache, name, Head(cols))
         THEN get_allowed_values(cache, Head(cols), name).value
              \o FilterValues(cache, name, Tail(cols))
         ELSE FilterValues(cache, name, Tail(cols))

\* get_datetime_columns(schema_name) or [datetime_col]
DatetimeColumnsOr(cache, name) ==
    IF get_datetime_columns(cache, name).value # <<>>
    THEN get_datetime_columns(cache, name).value
    ELSE <<get_datetime_column(cache, name).value>>

\* the terminals of the grammar, for a name the cache holds with every key
GrammarText(cache, name) ==
    [COLUMN |-> Join("|", get_column_names(cache, name).value),
     AGG_COLUMN |-> PatternOrNone(get_aggregatable_columns(cache, name).value),
     GROUP_COLUMN |-> PatternOrNone(get_groupable_columns(cache, name).value),
     FILTER_COLUMN |-> PatternOrNone(get_filterable_columns(cache, name).value),
     FILTER_STRING_COLUMN |->
        PatternOrNone(SelectSeq(get_filterable_columns(cache, name).value,
                                LAMBDA col : IsFilterableString(cache, name, col))),
     FILTER_NUMERIC_COLUMN |->
        PatternOrNone(SelectSeq(get_filterable_columns(cache, name).value,
                                LAMBDA col : IsFilterableNumeric(cache, name, col))),
     DATETIME_COL |-> get_datetime_column(cache, name).value,
     DATETIME_ANY |-> Join("|", DatetimeColumnsOr(cache, name)),
     AGG_FUNC |-> Join("|", get_supported_aggregates(cache, name).value),
     TABLE |-> get_table_name(cache, name).value,
     STRING_VALUE |->
        PatternOrNone(FilterValues(cache, name,
                                   get_filterable_columns(cache, name).value))]

\* the keys of the definition the accessor calls of cfg.py:41-48 index
GrammarKeys == {"table", "columns", "datetime_column", "supported_aggregates"}

\* variant of generate_clickhouse_grammar: the text carries the number of
\* grammars compiled before it
generate_clickhouse_grammar_Stamped(cache, name) ==
    IF get_schema(cache, name).raised # "none" THEN get_schema(cache, name)
    ELSE IF ~(GrammarKeys \subseteq DOMAIN get_schema(cache, name).value)
    THEN [get_schema(cache, name) EXCEPT !.raised = "KeyError", !.value = NoValue]
    ELSE [get_schema(cache, name) EXCEPT
            !.value = [GrammarText(get_schema(cache, name).cache, name) EXCEPT
                         !.TABLE = <<@, Len(grammar_log)>>]]

generate_clickhouse_grammar(cache, name) ==
    IF get_schema(cache, name).raised # "none" THEN get_schema(cache, name)
    ELSE IF ~(GrammarKeys \subseteq DOMAIN get_schema(cache, name).value)
    THEN [get_schema(cache, name) EXCEPT !.raised = "KeyError", !.value = NoValue]
    ELSE [get_schema(cache, name) EXCEPT
            !.value = GrammarText(get_schema(cache, name).cache, name)]

-----------------------------------------------------------------------------
(* The schema consulted by the validator (schema_registry accessors) *)

\* get_table_name(schema_name)
SchemaTable == get_table_name(_schema_cache, DEFAULT_SCHEMA).value

\* get_column_names(schema_name)
SchemaColumns == get_column_names(_schema_cache, DEFAULT_SCHEMA).value

-----------------------------------------------------------------------------
(* The parser the validator calls: sqlglot.parse(text, dialect)            *)
(* -> list of syntax trees | ParseError | TokenError                        *)

KeywordTokens == {"SELECT", "FROM", "LIMIT", "DROP", "TABLE", "UNION"}

Punctuation == {"*", "(", ")", ";", ",", "*/", "\\"}

\* index after the longest run of word lexemes starting at j
RECURSIVE WordRunEnd(_, _)
WordRunEnd(s, j) ==
    IF j <= Len(s) /\ IsWord(s[j]) THEN WordRunEnd(s, j + 1) ELSE j

\* the token spelled by a run of adjacent word lexemes
WordToken(v) ==
    IF Len(v) = 1 /\ Upper(v[1]) \in KeywordTokens
    THEN [t |-> Upper(v[1]), v |-> v]
    ELSE IF \A m \in 1..Len(v) : IsDigits(v[m])
    THEN [t |-> "num", v |-> v]
    ELSE [t |-> "id", v |-> v]

\* the tokenizer's failure, carried as the last token
TokenErrorMark == [t |-> "TokenError", v |-> <<>>]

\* tokenizer: the tokens; an unterminated literal ends them with TokenErrorMark
RECURSIVE Tokenize(_, _)
Tokenize(s, i) ==
    IF i > Len(s) THEN <<>>
    ELSE IF IsSpace(s[i]) THEN Tokenize(s, i + 1)
    ELSE IF s[i] = "'"
    THEN IF IndexFrom(s, i + 1, "'") > Len(s)
         THEN <<TokenErrorMark>>
         ELSE <<[t |-> "str", v |-> SubSeq(s, i + 1, IndexFrom(s, i + 1, "'") - 1)]>>
              \o Tokenize(s, IndexFrom(s, i + 1, "'") + 1)
    ELSE IF s[i] = "/*"
    THEN IF IndexFrom(s, i + 1, "*/") > Len(s)
         THEN <<>>
         ELSE Tokenize(s, IndexFrom(s, i + 1, "*/") + 1)
    ELSE IF s[i] = "--" THEN Tokenize(s, IndexFrom(s, i + 1, "\n"))
    ELSE IF IsWord(s[i])
    THEN <<WordToken(SubSeq(s, i, WordRunEnd(s, i) - 1))>>
         \o Tokenize(s, WordRunEnd(s, i))
    ELSE <<[t |-> s[i], v |-> <<s[i]>>]>> \o Tokenize(s, i + 1)

\* syntax tree node
Node(kind, name, args) == [node |-> kind, name |-> name, args |-> args]

NoNode == Node("None", <<>>, <<>>)

Parsed(n, rest) == [ok |-> TRUE, node |-> n, rest |-> rest]

ParseFail == [ok |-> FALSE, node |-> NoNode, rest |-> <<>>]

IsTok(toks, t) == toks # <<>> /\ toks[1].t = t

\* the argument of a function call
ArgNode(tok) ==
    IF tok.t = "*" THEN Node("Star", <<"*">>, <<>>)
    ELSE IF tok.t = "id" THEN Node("Column", tok.v, <<>>)
    ELSE Node("Literal", tok.v, <<>>)

\* id "(" [ "*" | id | num | str ] ")" ; node.args holds the argument, if any
ParseCall(toks) ==
    IF Len(toks) >= 3 /\ toks[3].t = ")"
    THEN Parsed(Node("Func", toks[1].v, <<>>), SubSeq(toks, 4, Len(toks)))
    ELSE IF /\ Len(toks) >= 4
            /\ toks[3].t \in {"*", "id", "num", "str"}
            /\ toks[4].t = ")"
    THEN Parsed(Node("Func", toks[1].v, <<ArgNode(toks[3])>>),
                SubSeq(toks, 5, Len(toks)))
    ELSE ParseFail

\* one select item
ParseItem(toks) ==
    IF IsTok(toks, "*") THEN Parsed(Node("Star", <<"*">>, <<>>), Tail(toks))
    ELSE IF IsTok(toks, "id") /\ IsTok(Tail(toks), "(") THEN ParseCall(toks)
    ELSE IF IsTok(toks, "id")
    THEN Parsed(Node("Column", toks[1].v, <<>>), Tail(toks))
    ELSE IF IsTok(toks, "num") \/ IsTok(toks, "str")
    THEN Parsed(Node("Literal", toks[1].v, <<>>), Tail(toks))
    ELSE ParseFail

RECURSIVE ParseItems(_)

\* the items after the first one, a, have been parsed as b
ItemsJoin(a, b) ==
    IF ~b.ok THEN ParseFail
    ELSE Parsed(Node("Items", <<>>, <<a>> \o b.node.args), b.rest)

\* the first item has been parsed as a
ItemsAfter(a) ==
    IF ~a.ok THEN ParseFail
    ELSE IF IsTok(a.rest, ",") THEN ItemsJoin(a.node, ParseItems(Tail(a.rest)))
    ELSE Parsed(Node("Items", <<>>, <<a.node>>), a.rest)

\* item ("," item)* ; node.args holds the items
ParseItems(toks) == ItemsAfter(ParseItem(toks))

\* [LIMIT num] ; node.args holds the Limit node, if any
ParseLimit(toks) ==
    IF IsTok(toks, "LIMIT")
    THEN IF IsTok(Tail(toks), "num")
         THEN Parsed(Node("Opt", <<>>, <<Node("Limit", toks[2].v, <<>>)>>),
                     Tail(Tail(toks)))
         ELSE ParseFail
    ELSE Parsed(Node("Opt", <<>>, <<>>), toks)

RECURSIVE ParseQuery(_)

\* the query q in parentheses must be followed by ")"
SubqueryClose(q) ==
    IF q.ok /\ IsTok(q.rest, ")")
    THEN Parsed(Node("Subquery", <<>>, <<q.node>>), Tail(q.rest))
    ELSE ParseFail

\* table | "(" query ")"
ParseSource(toks) ==
    IF IsTok(toks, "id") THEN Parsed(Node("Table", toks[1].v, <<>>), Tail(toks))
    ELSE IF IsTok(toks, "(") THEN SubqueryClose(ParseQuery(Tail(toks)))
    ELSE ParseFail

\* the Select node, once its LIMIT part has been parsed as lim
SelectDone(args, lim) ==
    IF ~lim.ok THEN ParseFail
    ELSE Parsed(Node("Select", <<>>, args \o lim.node.args), lim.rest)

\* the Select node, once its FROM part has been parsed as src
SelectLimit(exprs, src) ==
    IF ~src.ok THEN ParseFail
    ELSE SelectDone(exprs \o (IF src.node = NoNode THEN <<>>
                              ELSE <<Node("From", <<>>, <<src.node>>)>>),
                    ParseLimit(src.rest))

\* the Select node, once its select list has been parsed as items
SelectFrom(items) ==
    IF ~items.ok THEN ParseFail
    ELSE SelectLimit(items.node.args,
                     IF IsTok(items.rest, "FROM")
                     THEN ParseSource(Tail(items.rest))
                     ELSE Parsed(NoNode, items.rest))

\* SELECT items [FROM source] [LIMIT num]
ParseSelect(toks) ==
    IF ~IsTok(toks, "SELECT") THEN ParseFail
    ELSE SelectFrom(ParseItems(Tail(toks)))

\* the right operand of UNION has been parsed as b
UnionJoin(a, b) ==
    IF ~b.ok THEN ParseFail
    ELSE Parsed(Node("Union", <<>>, <<a, b.node>>), b.rest)

\* the first select of a query has been parsed as a
QueryAfter(a) ==
    IF ~a.ok THEN ParseFail
    ELSE IF IsTok(a.rest, "UNION") THEN UnionJoin(a.node, ParseQuery(Tail(a.rest)))
    ELSE a

\* select (UNION query)?
ParseQuery(toks) == QueryAfter(ParseSelect(toks))

\* query | DROP TABLE table
ParseStatement(toks) ==
    IF IsTok(toks, "DROP")
    THEN IF IsTok(Tail(toks), "TABLE") /\ IsTok(Tail(Tail(toks)), "id")
         THEN Parsed(Node("Drop", <<>>, <<Node("Table", toks[3].v, <<>>)>>),
                     Tail(Tail(Tail(toks))))
         ELSE ParseFail
    ELSE ParseQuery(toks)

\* the token list cut at the semicolons; a final semicolon opens no chunk
RECURSIVE SplitChunks(_, _)
SplitChunks(toks, cur) ==
    IF toks = <<>> THEN <<cur>>
    ELSE IF toks[1].t = ";"
    THEN IF Len(toks) = 1 THEN <<cur>>
         ELSE <<cur>> \o SplitChunks(Tail(toks), <<>>)
    ELSE SplitChunks(Tail(toks), Append(cur, toks[1]))

\* a statement must use up its chunk
ChunkDone(r) == IF r.ok /\ r.rest = <<>> THEN r ELSE ParseFail

\* one chunk: an empty chunk parses to None
ParseChunk(chunk) ==
    IF chunk = <<>> THEN Parsed(NoNode, <<>>)
    ELSE ChunkDone(ParseStatement(chunk))

ParseOutcome(outcome, statements) ==
    [outcome |-> outcome, statements |-> statements]

\* the parser's result, from the results of the chunks
ParseResult(trees) ==
    IF \E c \in 1..Len(trees) : ~trees[c].ok
    THEN ParseOutcome("ParseError", <<>>)
    ELSE ParseOutcome("ok", [c \in 1..Len(trees) |-> trees[c].node])

ParseChunks(chunks) ==
    ParseResult([c \in 1..Len(chunks) |-> ParseChunk(chunks[c])])

ParseTokens(toks) ==
    IF toks # <<>> /\ toks[Len(toks)] = TokenErrorMark
    THEN ParseOutcome("TokenError", <<>>)
    ELSE ParseChunks(SplitChunks(toks, <<>>))

\* sqlglot.parse: [outcome |-> "ok" | "ParseError" | "TokenError", statements]
parse(text) == ParseTokens(Tokenize(text, 1))

\* Expression.find_all(kind): breadth-first walk of the tree
RECURSIVE BfsWalk(_)
BfsWalk(queue) ==
    IF queue = <<>> THEN <<>>
    ELSE <<Head(queue)>> \o BfsWalk(Tail(queue) \o Head(queue).args)

\* variant of find_all: a walk that does not enter subqueries
RECURSIVE BfsWalkOuter(_)
BfsWalkOuter(queue) ==
    IF queue = <<>> THEN <<>>
    ELSE <<Head(queue)>>
         \o BfsWalkOuter(Tail(queue)
                         \o (IF Head(queue).node = "Subquery" THEN <<>>
                             ELSE Head(queue).args))

find_all_outer(tree, kind) ==
    SelectSeq(BfsWalkOuter(<<tree>>), LAMBDA n : n.node = kind)

find_all(tree, kind) == SelectSeq(BfsWalk(<<tree>>), LAMBDA n : n.node = kind)

\* the .name of a Table or Column node, lower-cased
LowerName(v) == [m \in 1..Len(v) |-> Lower(v[m])]

-----------------------------------------------------------------------------
(* validate_sql *)

FORBIDDEN_KEYWORDS ==
    <<"INSERT", "UPDATE", "DELETE", "DROP", "CREATE", "ALTER",
      "TRUNCATE", "GRANT", "REVOKE", "ATTACH", "DETACH",
      "RENAME", "OPTIMIZE", "KILL", "SYSTEM", "ADMIN">>

\* re.search(rf"\\b{keyword}\\b", sql_upper): in a raw string \\b is the
\* pattern "a backslash, then the letter b", not a word boundary
KeywordSearch(keyword, sql_upper) ==
    \E i \in 1..(Len(sql_upper) - 4) :
        /\ sql_upper[i] = "\\"
        /\ sql_upper[i + 1] = "b"
        /\ sql_upper[i + 2] = keyword
        /\ sql_upper[i + 3] = "\\"
        /\ sql_upper[i + 4] = "b"

Violation(msg, arg) == [msg |-> msg, arg |-> arg]

\* the forbidden-keyword loop
KeywordErrors(sql_upper) ==
    LET hits == SelectSeq(FORBIDDEN_KEYWORDS,
                          LAMBDA k : KeywordSearch(k, sql_upper))
    IN  [h \in 1..Len(hits) |-> Violation("Forbidden keyword", <<hits[h]>>)]

\* the table loop
TableErrors(parsed) ==
    LET bad == SelectSeq(find_all(parsed, "Table"),
                         LAMBDA n : LowerName(n.name) # <<Lower(SchemaTable)>>)
    IN  [h \in 1..Len(bad) |-> Violation("Invalid table", bad[h].name)]

\* valid_columns
ValidColumns ==
    { <<Lower(SchemaColumns[c])>> : c \in 1..Len(SchemaColumns) } \cup { <<"*">> }

\* variant of ColumnErrors: the loop stops at the first offending column
ColumnErrors_First(parsed) ==
    LET bad == SelectSeq(find_all(parsed, "Column"),
                         LAMBDA n : LowerName(n.name) \notin ValidColumns)
    IN  IF bad = <<>> THEN <<>>
        ELSE <<Violation("Invalid column", bad[1].name)>>

\* the column loop
ColumnErrors(parsed) ==
    LET bad == SelectSeq(find_all(parsed, "Column"),
                         LAMBDA n : LowerName(n.name) \notin ValidColumns)
    IN  [h \in 1..Len(bad) |-> Violation("Invalid column", bad[h].name)]

Returned(valid, errs) == [raised |-> "none", is_valid |-> valid, errors |-> errs]

\* return len(errors) == 0, errors
ReturnErrors(errs) == Returned(Len(errs) = 0, errs)

\* variant of IsSelect: isinstance(parsed, exp.Query), set operations included
IsSelect_AnyQuery(parsed) == parsed.node \in {"Select", "Union"}

\* isinstance(parsed, exp.Select)
IsSelect(parsed) == parsed.node = "Select"

\* variant of SingleStatement: only an empty result is refused
SingleStatement_AtLeastOne(statements) == Len(statements) >= 1

\* the statement-count test on the parser's result
SingleStatement(statements) == Len(statements) = 1

\* the part of validate_sql that follows the parse
CheckStatement(parsed) ==
    IF ~IsSelect(parsed)
    THEN Returned(FALSE, <<Violation("Only SELECT statements are allowed", <<>>)>>)
    ELSE ReturnErrors(TableErrors(parsed) \o ColumnErrors(parsed))

\* validate_sql after the keyword loop (kw) and, when reached, the parse (p)
ValidateParsed(kw, p) ==
    IF kw # <<>> THEN Returned(FALSE, kw)
    ELSE IF p.outcome = "TokenError"
    THEN [raised |-> "TokenError", is_valid |-> FALSE, errors |-> <<>>]
    ELSE IF p.outcome = "ParseError"
    THEN Returned(FALSE, <<Violation("SQL parse error", <<>>)>>)
    ELSE IF ~SingleStatement(p.statements)
    THEN Returned(FALSE,
             <<Violation("Only single SELECT statements are allowed", <<>>)>>)
    ELSE CheckStatement(p.statements[1])

ValidateCleaned(cleaned_sql) ==
    ValidateParsed(KeywordErrors(UpperText(cleaned_sql)), parse(cleaned_sql))

validate_sql(text) == ValidateCleaned(_strip_comments(text))

-----------------------------------------------------------------------------
(* Inputs *)

RECURSIVE Flatten(_)
Flatten(ps) == IF ps = <<>> THEN <<>> ELSE Head(ps) \o Flatten(Tail(ps))

\* every concatenation of at most n phrases of P
TextsOver(P, n) ==
    { Flatten(ps) : ps \in UNION { [1..k -> P] : k \in 0..n } }

LimitPhrases ==
    { <<"SELECT", " ", "*", " ", "FROM", " ", "trips">>,
      <<" ", "LIMIT", " ", "5000">>,
      <<" ", "limit", "\n", " ", "5">>,
      <<"Limit">>, <<"1000">>, <<" ">>, <<";">>,
      <<"--">>, <<"\n">>, <<"/*">>, <<"*/">> }

\* (default_limit, max_limit) pairs
LimitPairs == { <<100, 1000>>, <<5, 100>>, <<1000, 100>> }

ValidatorPhrases ==
    { <<"SELECT", " ", "payment_type", " ", "FROM", " ", "trips">>,
      <<"select", " ", "ssn", ",", " ", "x", " ", "from", " ", "users">>,
      <<"SELECT", " ", "*", ",", "PAYMENT_TYPE", " ", "FROM", " ", "(">>,
      <<")">>, <<";">>, <<" ", "UNION", " ">>,
      <<"drop", " ", "TABLE", " ", "users">>,
      <<"'">>, <<"/*">>, <<"*/">>,
      <<"\\", "b", "DROP", "\\", "b">> }

\* client addresses: the exempt local address and a remote one
ClientIPs == {"127.0.0.1", "203.0.113.7"}

\* the state of the request handler and rate limiter before any request
NoRequest ==
    /\ run_args = <<>>
    /\ response = "none"
    /\ gen_sql = <<>>
    /\ rate_limit_store = [ip \in ClientIPs \cup {"unknown"} |-> <<>>]
    /\ accepted = [ip \in ClientIPs \cup {"unknown"} |-> <<>>]
    /\ now = 0
    /\ rate_limit_requests = 2
    /\ rate_limit_window = 60

\* the cache of a process that has loaded nothing
EmptyCache == [n \in {} |-> n]

Threads == {"t1", "t2"}

\* no registry call, grammar compilation or request has happened yet
NoSchemaActivity ==
    /\ _cached_grammar = EmptyCache
    /\ _cached_tool = EmptyCache
    /\ grammar_log = <<>>
    /\ call = [op |-> "none", name |-> "", path |-> NoPath]
    /\ result = [raised |-> "none", value |-> NoValue]
    /\ opened = <<>>
    /\ request_pc = "idle"
    /\ handed = NoValue
    /\ checked = NoValue
    /\ thread_pc = [t \in Threads |-> "idle"]
    /\ thread_local = [t \in Threads |-> NoValue]
    /\ observed = [t \in Threads |-> NoValue]

\* lifespan(): load_schema() at startup, from a schema.json that carries the
\* limits of the run
ServerStarted ==
    /\ files = [p \in FilePaths |->
                  IF p = _resolve_schema_path(DEFAULT_SCHEMA, NoPath)
                  THEN JsonFile([TripsSchema EXCEPT
                                    !.default_limit = default_limit,
                                    !.max_limit = max_limit])
                  ELSE MissingFile]
    /\ _schema_cache = load_schema(EmptyCache, DEFAULT_SCHEMA, NoPath).cache

-----------------------------------------------------------------------------
(* SpecLimit: enforce_limit called on an arbitrary text *)

InitLimit ==
    /\ pc = "call_enforce_limit"
    /\ sql \in TextsOver(LimitPhrases, MaxParts)
    /\ \E p \in LimitPairs : default_limit = p[1] /\ max_limit = p[2]
    /\ is_valid = FALSE
    /\ errors = <<>>
    /\ raised = "none"
    /\ ok = FALSE
    /\ limited_sql = <<>>
    /\ limit_errors = <<>>
    /\ NoRequest
    /\ ServerStarted
    /\ NoSchemaActivity

CallEnforceLimit ==
    /\ pc = "call_enforce_limit"
    /\ LET r == enforce_limit(sql, default_limit, max_limit)
       IN  /\ ok' = r.ok
           /\ limited_sql' = r.sql
           /\ limit_errors' = r.errors
    /\ pc' = "returned"
    /\ UNCHANGED <<sql, limitVars, validateVars, requestVars, rateVars>>
    /\ UNCHANGED schemaVars

NextLimit == CallEnforceLimit

SpecLimit == InitLimit /\ [][NextLimit]_vars

-----------------------------------------------------------------------------
(* SpecValidate: validate_sql called on an arbitrary text *)

InitValidate ==
    /\ pc = "call_validate_sql"
    /\ sql \in TextsOver(ValidatorPhrases, MaxParts)
    /\ default_limit = 100
    /\ max_limit = 1000
    /\ is_valid = FALSE
    /\ errors = <<>>
    /\ raised = "none"
    /\ ok = FALSE
    /\ limited_sql = <<>>
    /\ limit_errors = <<>>
    /\ NoRequest
    /\ ServerStarted
    /\ NoSchemaActivity

CallValidateSql ==
    /\ pc = "call_validate_sql"
    /\ LET r == validate_sql(sql)
       IN  /\ raised' = r.raised
           /\ is_valid' = r.is_valid
           /\ errors' = r.errors
           /\ pc' = IF r.raised = "none" THEN "returned" ELSE "raised"
    /\ UNCHANGED <<sql, limitVars, enforceVars, requestVars, rateVars>>
    /\ UNCHANGED schemaVars

NextValidate == CallValidateSql

SpecValidate == InitValidate /\ [][NextValidate]_vars

-----------------------------------------------------------------------------
(* SpecRegistry: calls on the schema registry and the grammar compiler and *)
(* the requests' use of the schema, one call at a time                     *)

sqlVars == <<pc, sql, limitVars, validateVars, enforceVars, requestVars, rateVars>>

\* number of compiled grammars kept in grammar_log
LogWindow == 2

InitRegistry ==
    /\ pc = "idle"
    /\ sql = <<>>
    /\ default_limit = DefaultLimitFallback
    /\ max_limit = MaxLimitFallback
    /\ is_valid = FALSE
    /\ errors = <<>>
    /\ raised = "none"
    /\ ok = FALSE
    /\ limited_sql = <<>>
    /\ limit_errors = <<>>
    /\ NoRequest
    /\ \E other \in {MissingFile, JsonFile(EventsSchema)}, alt \in FileContents :
          files = [p \in FilePaths |->
                     IF p = _resolve_schema_path(DEFAULT_SCHEMA, NoPath)
                     THEN JsonFile(TripsSchema)
                     ELSE IF p = AltPath THEN alt ELSE other]
    /\ _schema_cache = EmptyCache
    /\ NoSchemaActivity

\* the entries of grammar_log whose schema the cache still holds unchanged
KeepLog(cache) ==
    SelectSeq(grammar_log,
              LAMBDA e : /\ e.name \in DOMAIN _schema_cache
                         /\ cache[e.name] = _schema_cache[e.name])

\* the log after a call of generate_clickhouse_grammar that yielded r
LogCompiled(name, r) ==
    IF r.raised # "none" THEN KeepLog(r.cache)
    ELSE IF Len(KeepLog(r.cache)) >= LogWindow
    THEN Append(Tail(KeepLog(r.cache)), [name |-> name, text |-> r.value])
    ELSE Append(KeepLog(r.cache), [name |-> name, text |-> r.value])

\* the call op(name, path) has yielded r
Called(op, name, path, r) ==
    /\ _schema_cache' = r.cache
    /\ call' = [op |-> op, name |-> name, path |-> path]
    /\ result' = [raised |-> r.raised, value |-> r.value]
    /\ opened' = r.opened

CallLoadSchema ==
    /\ request_pc = "idle"
    /\ \E name \in SchemaNames, path \in PathArgs :
          Called("load_schema", name, path, load_schema(_schema_cache, name, path))
    /\ grammar_log' = KeepLog(_schema_cache')
    /\ UNCHANGED <<sqlVars, files, _cached_grammar, _cached_tool, sliceVars,
                   threadVars>>

CallGetSchema ==
    /\ request_pc = "idle"
    /\ \E name \in SchemaNames :
          Called("get_schema", name, NoPath, get_schema(_schema_cache, name))
    /\ grammar_log' = KeepLog(_schema_cache')
    /\ UNCHANGED <<sqlVars, files, _cached_grammar, _cached_tool, sliceVars,
                   threadVars>>

AccessorNames ==
    {"get_table_name", "get_column_names", "get_datetime_column",
     "get_default_limit", "get_max_limit"}

Accessor(op, cache, name) ==
    CASE op = "get_table_name" -> get_table_name(cache, name)
      [] op = "get_column_names" -> get_column_names(cache, name)
      [] op = "get_datetime_column" -> get_datetime_column(cache, name)
      [] op = "get_default_limit" -> get_default_limit(cache, name)
      [] op = "get_max_limit" -> get_max_limit(cache, name)

CallAccessor ==
    /\ request_pc = "idle"
    /\ \E name \in SchemaNames, op \in AccessorNames :
          Called(op, name, NoPath, Accessor(op, _schema_cache, name))
    /\ grammar_log' = KeepLog(_schema_cache')
    /\ UNCHANGED <<sqlVars, files, _cached_grammar, _cached_tool, sliceVars,
                   threadVars>>

\* the schema names requests and grammar compilations are made for
RequestSchemas == {DEFAULT_SCHEMA}

\* a direct call of generate_clickhouse_grammar (get_tool_definition,
\* validate_grammar)
CallGenerateGrammar ==
    /\ request_pc = "idle"
    /\ \E name \in RequestSchemas :
          /\ Called("generate_clickhouse_grammar", name, NoPath,
                    generate_clickhouse_grammar(_schema_cache, name))
          /\ grammar_log' =
                LogCompiled(name, generate_clickhouse_grammar(_schema_cache, name))
    /\ UNCHANGED <<sqlVars, files, _cached_grammar, _cached_tool, sliceVars,
                   threadVars>>

\* the tool definition _get_cfg_tool builds around a grammar
ToolDefinition(grammar) ==
    [type |-> "custom", name |-> "clickhouse_query",
     format |-> [type |-> "grammar", syntax |-> "lark", definition |-> grammar]]

\* generate_sql failed: the handler answers and the request is over
GenerationFailed(name, r) ==
    /\ Called("generate_sql", name, NoPath, [r EXCEPT !.value = NoValue])
    /\ request_pc' = "idle"
    /\ UNCHANGED handed

\* generate_sql handed the cached tool to the generator, which answers or fails
ToolHanded(name, r, answered) ==
    /\ Called("generate_sql", name, NoPath,
              [r EXCEPT !.value = NoValue,
                        !.raised = IF answered THEN "none" ELSE "Exception"])
    /\ handed' = _cached_tool'[name].format.definition
    /\ request_pc' = IF answered THEN "generated" ELSE "idle"

\* query() Step 1: generate_sql builds the prompt from the schema and hands
\* the tool of _get_cfg_tool to the generator
RequestGenerateSql ==
    /\ request_pc = "idle"
    /\ \E name \in RequestSchemas, answered \in BOOLEAN :
          LET c == get_schema_context_for_llm(_schema_cache, name)
              g == generate_clickhouse_grammar(c.cache, name)
          IN  IF c.raised # "none"
              THEN /\ GenerationFailed(name, c)
                   /\ grammar_log' = KeepLog(c.cache)
                   /\ UNCHANGED <<_cached_grammar, _cached_tool>>
              ELSE IF name \in DOMAIN _cached_tool
              THEN /\ UNCHANGED <<_cached_grammar, _cached_tool>>
                   /\ grammar_log' = KeepLog(c.cache)
                   /\ ToolHanded(name, c, answered)
              ELSE IF g.raised # "none"
              THEN /\ GenerationFailed(name, g)
                   /\ grammar_log' = LogCompiled(name, g)
                   /\ UNCHANGED <<_cached_grammar, _cached_tool>>
              ELSE /\ _cached_grammar' = CacheStore(_cached_grammar, name, g.value)
                   /\ _cached_tool' =
                         CacheStore(_cached_tool, name, ToolDefinition(g.value))
                   /\ grammar_log' = LogCompiled(name, g)
                   /\ ToolHanded(name, g, answered)
    /\ UNCHANGED <<sqlVars, files, checked, threadVars>>

\* query() Step 2: validate_sql reads the whitelist of the request's schema
\* when the text has parsed to one SELECT statement
RequestValidateSql ==
    /\ request_pc = "generated"
    /\ \E parsed_select \in BOOLEAN :
          /\ Called("validate_sql", call.name, NoPath,
                    [get_schema(_schema_cache, call.name) EXCEPT
                        !.value = parsed_select])
          /\ checked' =
                IF parsed_select
                THEN [table |-> get_table_name(_schema_cache, call.name).value,
                      columns |-> get_column_names(_schema_cache, call.name).value]
                ELSE checked
    /\ request_pc' = "idle"
    /\ grammar_log' = KeepLog(_schema_cache')
    /\ UNCHANGED <<sqlVars, files, _cached_grammar, _cached_tool, handed,
                   threadVars>>

NextRegistry ==
    \/ CallLoadSchema
    \/ CallGetSchema
    \/ CallAccessor
    \/ CallGenerateGrammar
    \/ RequestGenerateSql
    \/ RequestValidateSql

SpecRegistry == InitRegistry /\ [][NextRegistry]_vars

-----------------------------------------------------------------------------
(* SpecRace: two threads call get_schema("default") on an empty cache; a   *)
(* step is one cache test, one file read or one cache assignment           *)

InitRace ==
    /\ pc = "idle"
    /\ sql = <<>>
    /\ default_limit = DefaultLimitFallback
    /\ max_limit = MaxLimitFallback
    /\ is_valid = FALSE
    /\ errors = <<>>
    /\ raised = "none"
    /\ ok = FALSE
    /\ limited_sql = <<>>
    /\ limit_errors = <<>>
    /\ NoRequest
    /\ \E content \in FileContents :
          files = [p \in FilePaths |->
                     IF p = _resolve_schema_path(DEFAULT_SCHEMA, NoPath)
                     THEN content ELSE MissingFile]
    /\ _schema_cache = EmptyCache
    /\ NoSchemaActivity

raceFrame == <<sqlVars, files, grammarVars, call, result, sliceVars>>

\* get_schema: `if name not in _schema_cache`
ThreadGetSchema(t) ==
    /\ thread_pc[t] = "idle"
    /\ thread_pc' = [thread_pc EXCEPT
                       ![t] = IF DEFAULT_SCHEMA \notin DOMAIN _schema_cache
                              THEN "load" ELSE "return"]
    /\ UNCHANGED <<raceFrame, _schema_cache, opened, thread_local, observed>>

\* load_schema: `if name in _schema_cache and path is None`
ThreadLoadCheck(t) ==
    /\ thread_pc[t] = "load"
    /\ thread_pc' = [thread_pc EXCEPT
                       ![t] = IF DEFAULT_SCHEMA \in DOMAIN _schema_cache
                              THEN "return" ELSE "open"]
    /\ UNCHANGED <<raceFrame, _schema_cache, opened, thread_local, observed>>

\* load_schema: open(schema_path) and json.load(f)
ThreadRead(t) ==
    /\ thread_pc[t] = "open"
    /\ opened' = Append(opened, _resolve_schema_path(DEFAULT_SCHEMA, NoPath))
    /\ IF files[_resolve_schema_path(DEFAULT_SCHEMA, NoPath)].kind = "json"
       THEN /\ thread_local' =
                  [thread_local EXCEPT
                     ![t] = files[_resolve_schema_path(DEFAULT_SCHEMA, NoPath)].value]
            /\ thread_pc' = [thread_pc EXCEPT ![t] = "store"]
       ELSE /\ thread_pc' = [thread_pc EXCEPT ![t] = "raised"]
            /\ UNCHANGED thread_local
    /\ UNCHANGED <<raceFrame, _schema_cache, observed>>

\* variant of ThreadStore: the slot is created with the columns only
ThreadStore_Partial(t) ==
    /\ thread_pc[t] = "store"
    /\ _schema_cache' = CacheStore(_schema_cache, DEFAULT_SCHEMA,
                                   [columns |-> thread_local[t].columns])
    /\ thread_pc' = [thread_pc EXCEPT ![t] = "return"]
    /\ UNCHANGED <<raceFrame, opened, thread_local, observed>>

\* load_schema: the assignment `_schema_cache[name] = ...`
ThreadStore(t) ==
    /\ thread_pc[t] = "store"
    /\ _schema_cache' = CacheStore(_schema_cache, DEFAULT_SCHEMA, thread_local[t])
    /\ thread_pc' = [thread_pc EXCEPT ![t] = "return"]
    /\ UNCHANGED <<raceFrame, opened, thread_local, observed>>

\* get_schema: `return _schema_cache[name]`
ThreadReturn(t) ==
    /\ thread_pc[t] = "return"
    /\ observed' = [observed EXCEPT ![t] = _schema_cache[DEFAULT_SCHEMA]]
    /\ thread_pc' = [thread_pc EXCEPT ![t] = "done"]
    /\ UNCHANGED <<raceFrame, _schema_cache, opened, thread_local>>

NextRace ==
    \E t \in Threads :
        \/ ThreadGetSchema(t)
        \/ ThreadLoadCheck(t)
        \/ ThreadRead(t)
        \/ ThreadStore(t)
        \/ ThreadReturn(t)

SpecRace == InitRace /\ [][NextRace]_vars

-----------------------------------------------------------------------------
(* SpecConverge: validate_sql called on a sentence of the grammar compiled *)
(* for the loaded schema                                                   *)

\* most select items of a sentence
MaxSelectItems == 2

\* the strings a terminal /a|b|.../ matches
Alternatives(pattern) ==
    { pattern[i] : i \in { k \in 1..Len(pattern) : pattern[k] # "|" } }

\* select_item: agg_expr | COLUMN | count_star
SelectItemsOf(g) ==
    { <<c>> : c \in Alternatives(g.COLUMN) }
    \cup { <<"count", "(", ")">>, <<"count", "(", "*", ")">> }
    \cup { <<f, "(", c, ")">> :
             f \in Alternatives(g.AGG_FUNC), c \in Alternatives(g.AGG_COLUMN) }

\* select_list: select_item (COMMA WS? select_item)*, at most n items
RECURSIVE SelectListsOf(_, _)
SelectListsOf(g, n) ==
    IF n <= 1 THEN SelectItemsOf(g)
    ELSE SelectListsOf(g, n - 1)
         \cup { l \o <<",", " ">> \o i :
                  l \in SelectListsOf(g, n - 1), i \in SelectItemsOf(g) }

\* [limit_clause]: WS LIMIT WS NUMBER
LimitClauses == { <<>>, <<" ", "LIMIT", " ", "5">> }

\* select_stmt without the WHERE, GROUP BY and ORDER BY clauses
GrammarLanguage(g) ==
    { <<kw, " ">> \o l \o <<" ", "FROM", " ", g.TABLE>> \o lim :
        kw \in {"SELECT", "select"},
        l \in SelectListsOf(g, MaxSelectItems),
        lim \in LimitClauses }

InitConverge ==
    /\ pc = "call_validate_sql"
    /\ default_limit = DefaultLimitFallback
    /\ max_limit = MaxLimitFallback
    /\ is_valid = FALSE
    /\ errors = <<>>
    /\ raised = "none"
    /\ ok = FALSE
    /\ limited_sql = <<>>
    /\ limit_errors = <<>>
    /\ NoRequest
    /\ \E schema \in {TripsSchema, EventsSchema} :
          files = [p \in FilePaths |->
                     IF p = _resolve_schema_path(DEFAULT_SCHEMA, NoPath)
                     THEN JsonFile(schema) ELSE MissingFile]
    /\ _schema_cache = load_schema(EmptyCache, DEFAULT_SCHEMA, NoPath).cache
    /\ sql \in GrammarLanguage(
                  generate_clickhouse_grammar(_schema_cache, DEFAULT_SCHEMA).value)
    /\ NoSchemaActivity

NextConverge == CallValidateSql

SpecConverge == InitConverge /\ [][NextConverge]_vars

-----------------------------------------------------------------------------
(* SpecGrammar: generate_clickhouse_grammar called for a schema whose       *)
(* columns and aggregate functions are drawn from the kinds below          *)

\* most columns of a drawn schema
MaxColumns == 2

\* column definitions: every combination of declared type, allowed values
\* and filterable flag the compiler's loop distinguishes
ColumnKinds ==
    { ColumnDef("ts", "DateTime", {"filterable", "is_datetime"}, <<>>),
      ColumnDef("kind", "String", {"groupable", "filterable"}, <<"click">>),
      ColumnDef("note", "String", {"filterable"}, <<>>),
      ColumnDef("payment_type", "UInt8", {"groupable", "filterable"},
                <<"1", "2">>),
      ColumnDef("fare_amount", "Float64", {"aggregatable"}, <<>>),
      ColumnDef("qty", "INT32", {"filterable", "aggregatable"}, <<>>),
      ColumnDef("amount", "Decimal(10,2)", {"filterable"}, <<>>),
      ColumnDef("status", "String", {}, <<"open">>),
      ColumnDef("tag", "LowCardinality(String)", {"filterable"}, <<"a">>) }

\* the column lists of at most n pairwise different kinds
ColumnLists(n) ==
    { cols \in UNION { [1..k -> ColumnKinds] : k \in 0..n } :
        \A i, j \in 1..Len(cols) : cols[i] = cols[j] => i = j }

AggregateLists == { <<>>, <<"count", "sum">> }

\* a schema over the drawn columns and aggregate functions
DrawnSchema(cols, aggs) ==
    [table |-> "events",
     columns |-> cols,
     datetime_column |-> "ts",
     supported_aggregates |-> aggs]

InitGrammar ==
    /\ pc = "idle"
    /\ sql = <<>>
    /\ default_limit = DefaultLimitFallback
    /\ max_limit = MaxLimitFallback
    /\ is_valid = FALSE
    /\ errors = <<>>
    /\ raised = "none"
    /\ ok = FALSE
    /\ limited_sql = <<>>
    /\ limit_errors = <<>>
    /\ NoRequest
    /\ \E cols \in ColumnLists(MaxColumns), aggs \in AggregateLists :
          files = [p \in FilePaths |->
                     IF p = _resolve_schema_path(DEFAULT_SCHEMA, NoPath)
                     THEN JsonFile(DrawnSchema(cols, aggs))
                     ELSE MissingFile]
    /\ _schema_cache = EmptyCache
    /\ NoSchemaActivity

NextGrammar == CallGenerateGrammar

SpecGrammar == InitGrammar /\ [][NextGrammar]_vars

-----------------------------------------------------------------------------
(* Spec: the /query request handler, one request after another *)

QueryPhrases ==
    { <<"SELECT", " ", "*", " ", "FROM", " ", "trips">>,
      <<"SELECT", " ", "*", " ", "FROM", " ", "(",
        "SELECT", " ", "*", " ", "FROM", " ", "trips", " ", "limit", " ", "5",
        ")">>,
      <<" ", "LIMIT", " ", "5000">>,
      <<" ", "limit", " ", "7">>,
      <<"SELECT", " ", "'", "limit", " ", "5", "'", ",", " ", "*", " ",
        "FROM", " ", "trips">>,
      <<"select", " ", "ssn", " ", "from", " ", "users">>,
      <<"'">>, <<";">> }

\* check_rate_limit: [exceeded |-> HTTPException(429) raised, store |-> the store]
check_rate_limit(store, client_ip, t) ==
    IF client_ip \in {"127.0.0.1", "localhost", "::1"}
    THEN [exceeded |-> FALSE, store |-> store]
    ELSE LET kept == SelectSeq(store[client_ip],
                               LAMBDA ts : t - ts < rate_limit_window)
         IN  IF Len(kept) >= rate_limit_requests
             THEN [exceeded |-> TRUE,
                   store |-> [store EXCEPT ![client_ip] = kept]]
             ELSE [exceeded |-> FALSE,
                   store |-> [store EXCEPT ![client_ip] = Append(kept, t)]]

Init ==
    /\ pc = "idle"
    /\ sql = <<>>
    /\ \E p \in LimitPairs :
          p[1] <= p[2] /\ default_limit = p[1] /\ max_limit = p[2]
    /\ is_valid = FALSE
    /\ errors = <<>>
    /\ raised = "none"
    /\ ok = FALSE
    /\ limited_sql = <<>>
    /\ limit_errors = <<>>
    /\ NoRequest
    /\ ServerStarted
    /\ NoSchemaActivity

\* time passes between two steps
Tick ==
    /\ now + TickSeconds <= MaxTime
    /\ now' = now + TickSeconds
    /\ UNCHANGED <<pc, sql, limitVars, validateVars, enforceVars, requestVars,
                   rate_limit_store, rate_limit_requests, rate_limit_window,
                   accepted>>
    /\ UNCHANGED schemaVars

\* the client a request is counted for: the first X-Forwarded-For entry when
\* the header is present, else the peer address
ClientOf(host, forwarded) == IF forwarded # "" THEN forwarded ELSE host

\* query() up to Step 1 for a request from host with the header forwarded:
\* the rate limit check and the empty-query check
Receive(host, forwarded, empty_query) ==
    LET r == check_rate_limit(rate_limit_store, ClientOf(host, forwarded), now)
    IN  /\ rate_limit_store' = r.store
        /\ response' = IF r.exceeded THEN "429"
                       ELSE IF empty_query THEN "400" ELSE "none"
        /\ pc' = IF r.exceeded \/ empty_query THEN "done" ELSE "generate"

ReceiveRequest ==
    /\ pc = "idle"
    /\ \E host \in ClientIPs \cup {"unknown"}, forwarded \in ClientIPs \cup {""},
          empty_query \in BOOLEAN :
          Receive(host, forwarded, empty_query)
    /\ UNCHANGED <<sql, limitVars, validateVars, enforceVars, run_args, gen_sql,
                   now, rate_limit_requests, rate_limit_window, accepted>>
    /\ UNCHANGED schemaVars

\* query(): Step 1, generate_sql; the generator's output is any text
GenerateSql ==
    /\ pc = "generate"
    /\ \E failed \in BOOLEAN, output \in TextsOver(QueryPhrases, MaxQueryParts) :
          IF failed \/ strip(output) = <<>>
          THEN /\ response' = "generation_failed"
               /\ pc' = "done"
               /\ UNCHANGED <<sql, gen_sql>>
          ELSE /\ gen_sql' = rstrip_semicolon(strip(strip(output)))
               /\ sql' = gen_sql'
               /\ pc' = "validate"
               /\ UNCHANGED response
    /\ UNCHANGED <<limitVars, validateVars, enforceVars, run_args, rateVars>>
    /\ UNCHANGED schemaVars

\* variant of ValidateSql: the handler goes on whatever validate_sql returned
ValidateSql_Unchecked ==
    /\ pc = "validate"
    /\ LET r == validate_sql(sql)
       IN  /\ raised' = r.raised
           /\ is_valid' = r.is_valid
           /\ errors' = r.errors
           /\ response' = IF r.raised # "none" THEN "500" ELSE response
           /\ pc' = IF r.raised = "none" THEN "enforce" ELSE "done"
    /\ UNCHANGED <<sql, limitVars, enforceVars, run_args, gen_sql, rateVars>>
    /\ UNCHANGED schemaVars

\* query(): Step 2, validate_sql
ValidateSql ==
    /\ pc = "validate"
    /\ LET r == validate_sql(sql)
       IN  /\ raised' = r.raised
           /\ is_valid' = r.is_valid
           /\ errors' = r.errors
           /\ response' = IF r.raised # "none" THEN "500"
                          ELSE IF ~r.is_valid THEN "validation_failed"
                          ELSE response
           /\ pc' = IF r.raised = "none" /\ r.is_valid THEN "enforce" ELSE "done"
    /\ UNCHANGED <<sql, limitVars, enforceVars, run_args, gen_sql, rateVars>>
    /\ UNCHANGED schemaVars

\* query(): Step 3, enforce_limit
EnforceLimit ==
    /\ pc = "enforce"
    /\ LET r == enforce_limit(sql, default_limit, max_limit)
       IN  /\ ok' = r.ok
           /\ limited_sql' = r.sql
           /\ limit_errors' = r.errors
           /\ sql' = IF r.ok THEN r.sql ELSE sql
           /\ response' = IF r.ok THEN response ELSE "limit_failed"
           /\ pc' = IF r.ok THEN "execute" ELSE "done"
    /\ UNCHANGED <<limitVars, validateVars, run_args, gen_sql, rateVars>>
    /\ UNCHANGED schemaVars

\* query(): Step 4, run_query, which succeeds or fails
RunQuery ==
    /\ pc = "execute"
    /\ run_args' = Append(run_args, sql)
    /\ \E success \in BOOLEAN :
          response' = IF success THEN "success" ELSE "execution_failed"
    /\ pc' = "done"
    /\ UNCHANGED <<sql, limitVars, validateVars, enforceVars, gen_sql, rateVars>>
    /\ UNCHANGED schemaVars

\* the response is sent; the handler is ready for the next request
NextRequest ==
    /\ pc = "done"
    /\ pc' = "idle"
    /\ sql' = <<>>
    /\ is_valid' = FALSE
    /\ errors' = <<>>
    /\ raised' = "none"
    /\ ok' = FALSE
    /\ limited_sql' = <<>>
    /\ limit_errors' = <<>>
    /\ run_args' = <<>>
    /\ response' = "none"
    /\ gen_sql' = <<>>
    /\ UNCHANGED <<limitVars, rateVars>>
    /\ UNCHANGED schemaVars

Next ==
    \/ Tick
    \/ ReceiveRequest
    \/ GenerateSql
    \/ ValidateSql
    \/ EnforceLimit
    \/ RunQuery
    \/ NextRequest

Spec == Init /\ [][Next]_vars

-----------------------------------------------------------------------------
(* SpecRate: the /query handler as the rate limiter sees it, with the      *)
(* history of the accepted requests                                        *)

\* the history after a request of client_ip passed the rate limit check at
\* time t: the times of the client's last rate_limit_requests + 1 accepted
\* requests
Accept(log, client_ip, t) ==
    [log EXCEPT ![client_ip] =
        IF Len(@) > rate_limit_requests THEN Append(Tail(@), t)
        ELSE Append(@, t)]

\* ReceiveRequest, recording the request in the history when it is accepted
ReceiveRequestLogged ==
    /\ pc = "idle"
    /\ \E host \in ClientIPs \cup {"unknown"}, forwarded \in ClientIPs \cup {""},
          empty_query \in BOOLEAN :
          /\ Receive(host, forwarded, empty_query)
          /\ accepted' =
                IF check_rate_limit(rate_limit_store, ClientOf(host, forwarded),
                                    now).exceeded
                THEN accepted
                ELSE Accept(accepted, ClientOf(host, forwarded), now)
    /\ UNCHANGED <<sql, limitVars, validateVars, enforceVars, run_args, gen_sql,
                   now, rate_limit_requests, rate_limit_window>>
    /\ UNCHANGED schemaVars

\* query() Steps 1 to 5 taken together: they read and write nothing of the
\* rate limiter and end with one of the handler's responses
ServeRequest ==
    /\ pc = "generate"
    /\ response' \in {"generation_failed", "validation_failed", "500",
                      "success", "execution_failed"}
    /\ pc' = "done"
    /\ UNCHANGED <<sql, limitVars, validateVars, enforceVars, run_args, gen_sql,
                   rateVars>>
    /\ UNCHANGED schemaVars

NextRate ==
    \/ Tick
    \/ ReceiveRequestLogged
    \/ ServeRequest
    \/ NextRequest

SpecRate == Init /\ [][NextRate]_vars

-----------------------------------------------------------------------------
(* Notions the properties are stated with *)

\* every node of a syntax tree, at any depth
RECURSIVE NodesOf(_)
NodesOf(n) == {n} \cup UNION { NodesOf(n.args[k]) : k \in 1..Len(n.args) }

\* the nodes of a syntax tree in depth-first order, one entry per node
RECURSIVE DfsList(_)
RECURSIVE DfsChildren(_)
DfsList(n) == <<n>> \o DfsChildren(n.args)
DfsChildren(ns) ==
    IF ns = <<>> THEN <<>> ELSE DfsList(Head(ns)) \o DfsChildren(Tail(ns))

TableAllowed(n) == LowerName(n.name) = <<Lower(SchemaTable)>>

ColumnAllowed(n) ==
    \/ n.name = <<"*">>
    \/ \E c \in 1..Len(SchemaColumns) : LowerName(n.name) = <<Lower(SchemaColumns[c])>>

OffendingTables(tree) ==
    SelectSeq(DfsList(tree), LAMBDA n : n.node = "Table" /\ ~TableAllowed(n))

OffendingColumns(tree) ==
    SelectSeq(DfsList(tree), LAMBDA n : n.node = "Column" /\ ~ColumnAllowed(n))

\* what the parser makes of the comment-stripped text under validation
ParsedInput == parse(_strip_comments(sql))

ParsedOne == ParsedInput.outcome = "ok" /\ Len(ParsedInput.statements) = 1

\* the forbidden-keyword loop of validate_sql recorded nothing for the text
ScanPassed == KeywordErrors(UpperText(_strip_comments(sql))) = <<>>

\* a forbidden keyword stands in s as a whole word, in any letter case
HasForbiddenWord(s) ==
    \E i \in 1..Len(s) :
        /\ \E f \in 1..Len(FORBIDDEN_KEYWORDS) : Upper(s[i]) = FORBIDDEN_KEYWORDS[f]
        /\ (i = 1 \/ ~IsWord(s[i - 1]))
        /\ (i = Len(s) \/ ~IsWord(s[i + 1]))

\* s[i..k-1] is an occurrence of LIMIT <number>: the keyword in any letter
\* case as a whole word, whitespace, then a whole number s[j..k-1]
LimitOccurrence(s, i, j, k) ==
    /\ 1 <= i /\ i + 1 < j /\ j < k /\ k <= Len(s) + 1
    /\ Lower(s[i]) = "limit"
    /\ (i = 1 \/ ~IsWord(s[i - 1]))
    /\ \A m \in (i + 1)..(j - 1) : IsSpace(s[m])
    /\ \A m \in j..(k - 1) : IsDigits(s[m])
    /\ (k = Len(s) + 1 \/ ~IsWord(s[k]))

HasLimitOccurrence(s) ==
    \E i \in 1..Len(s), j \in 1..Len(s), k \in 1..(Len(s) + 1) :
        LimitOccurrence(s, i, j, k)

\* the first occurrence of LIMIT <number> in s is s[i..k-1], its number s[j..k-1]
FirstLimitOccurrence(s, i, j, k) ==
    /\ LimitOccurrence(s, i, j, k)
    /\ \A h \in 1..(i - 1), j2 \in 1..Len(s), k2 \in 1..(Len(s) + 1) :
          ~LimitOccurrence(s, h, j2, k2)

\* the LIMIT clause of the outermost SELECT of a statement, as a set of values
OuterLimits(tree) ==
    { IntOf(tree.args[a].name) :
        a \in { b \in 1..Len(tree.args) : tree.args[b].node = "Limit" } }

\* the LIMIT values that bound the rows a SELECT returns: its own LIMIT and
\* those bounding the subquery it selects from
RECURSIVE RowBounds(_)
RowBounds(tree) ==
    IF tree.node # "Select" THEN {}
    ELSE OuterLimits(tree)
         \cup UNION { RowBounds(tree.args[a].args[1].args[1]) :
                        a \in { b \in 1..Len(tree.args) :
                                  /\ tree.args[b].node = "From"
                                  /\ tree.args[b].args[1].node = "Subquery" } }

-----------------------------------------------------------------------------
(* Properties *)

\* C1: run_query is called only for a request whose generated SQL
\* validate_sql reported valid and enforce_limit approved, at most once per
\* request, with the text enforce_limit returned; a request that ended with a
\* generation, validation or limit failure called run_query not at all.
C1_RunOnlyAfterApproval ==
    /\ Len(run_args) <= 1
    /\ run_args # <<>> =>
          /\ validate_sql(gen_sql).raised = "none"
          /\ validate_sql(gen_sql).is_valid
          /\ is_valid /\ ok
          /\ enforce_limit(gen_sql, default_limit, max_limit).ok
          /\ run_args[1] = enforce_limit(gen_sql, default_limit, max_limit).sql
    /\ response \in {"429", "400", "500", "generation_failed",
                     "validation_failed", "limit_failed"} => run_args = <<>>

\* C1: a request was executed with a text the enforcer had rewritten
C1_Witness ==
    /\ pc = "done" /\ response = "success"
    /\ Len(run_args) = 1 /\ run_args[1] # gen_sql

\* C2: a text whose comment-stripped form holds a forbidden keyword as a
\* whole word is returned invalid with forbidden-keyword violations only
\* (the parse is not attempted, so no violation of another kind is listed).
C2_ForbiddenKeywordRejected ==
    (pc # "call_validate_sql" /\ HasForbiddenWord(_strip_comments(sql))) =>
        /\ pc = "returned" /\ ~is_valid /\ errors # <<>>
        /\ \A e \in 1..Len(errors) : errors[e].msg = "Forbidden keyword"

\* C3: in a text reported valid, every table reference of the parsed
\* statement, at any depth, is the schema's table and every column reference
\* is a schema column or *, letter case ignored.
C3_ValidReferencesAllowed ==
    (pc = "returned" /\ is_valid) =>
        /\ ParsedOne
        /\ \A n \in NodesOf(ParsedInput.statements[1]) :
              /\ n.node = "Table" => TableAllowed(n)
              /\ n.node = "Column" => ColumnAllowed(n)

\* C3: a valid text with a subquery and a column written in another case
C3_Witness ==
    /\ pc = "returned" /\ is_valid
    /\ \E n \in NodesOf(ParsedInput.statements[1]) : n.node = "Subquery"
    /\ \E n \in NodesOf(ParsedInput.statements[1]) :
          n.node = "Column" /\ n.name = <<"PAYMENT_TYPE">>

\* C4: a text in which the parser finds more than one statement is returned
\* invalid, with a violation naming a forbidden keyword or the
\* single-statement rule.
C4_StackedStatementsRejected ==
    (pc # "call_validate_sql" /\ ParsedInput.outcome = "ok"
       /\ Len(ParsedInput.statements) > 1) =>
        /\ pc = "returned" /\ ~is_valid
        /\ \E e \in 1..Len(errors) :
              errors[e].msg \in {"Forbidden keyword",
                                 "Only single SELECT statements are allowed"}

\* C4: a valid SELECT followed by a semicolon and a DROP TABLE was judged
C4_Witness ==
    /\ pc = "returned"
    /\ sql = <<"SELECT", " ", "payment_type", " ", "FROM", " ", "trips", ";",
               "drop", " ", "TABLE", " ", "users">>

\* C5: when the parse yields exactly one statement that is not a SELECT node
\* (another statement kind, a set operation, or the empty result None), the
\* text is returned invalid with a violation.
C5_OnlySelectAccepted ==
    (pc # "call_validate_sql" /\ ParsedOne
       /\ ParsedInput.statements[1].node # "Select") =>
        pc = "returned" /\ ~is_valid /\ errors # <<>>

\* C5: a set operation over two acceptable SELECTs was judged
C5_Witness ==
    /\ pc = "returned" /\ ParsedOne
    /\ ParsedInput.statements[1].node = "Union"
    /\ OffendingTables(ParsedInput.statements[1]) = <<>>
    /\ OffendingColumns(ParsedInput.statements[1]) = <<>>

\* C6: validate_sql returns a pair for every text; no exception leaves it.
C6_NeverRaises == pc # "raised" /\ raised = "none"

C8_ExecutedQueryBounded ==
    \A r \in 1..Len(run_args) :
        /\ parse(run_args[r]).outcome = "ok"
        /\ Len(parse(run_args[r]).statements) = 1
        /\ \E v \in RowBounds(parse(run_args[r]).statements[1]) : v <= max_limit

\* C9: with no LIMIT <number> occurrence in the comment-stripped text, the
\* result is the stripped text followed by " LIMIT <default_limit>".
C9_DefaultLimitAppended ==
    (pc = "returned" /\ ~HasLimitOccurrence(_strip_comments(sql))) =>
        limited_sql = CleanedForLimit(sql) \o <<" ", "LIMIT", " ", Str(default_limit)>>

\* C9: "SELECT * FROM trips" with default 100 became "SELECT * FROM trips LIMIT 100"
C9_Witness ==
    /\ pc = "returned" /\ default_limit = 100
    /\ sql = <<"SELECT", " ", "*", " ", "FROM", " ", "trips">>
    /\ limited_sql = <<"SELECT", " ", "*", " ", "FROM", " ", "trips",
                       " ", "LIMIT", " ", "100">>

\* C10: when the number of the first LIMIT <number> occurrence exceeds
\* max_limit, the result is the stripped text with that occurrence turned into
\* a LIMIT clause of max_limit; the text before it and the text after it,
\* later LIMIT clauses included, are as they were.
C10_OnlyFirstLimitChanged ==
    pc = "returned" =>
        LET c == CleanedForLimit(sql)
        IN  \A i \in 1..Len(c), j \in 1..Len(c), k \in 1..(Len(c) + 1) :
                (FirstLimitOccurrence(c, i, j, k)
                   /\ IntOf(SubSeq(c, j, k - 1)) > max_limit) =>
                    \E e \in i..Len(limited_sql) :
                        /\ SubSeq(limited_sql, 1, i - 1) = SubSeq(c, 1, i - 1)
                        /\ LimitOccurrence(limited_sql, i, e, e + 1)
                        /\ limited_sql[e] = Str(max_limit)
                        /\ SubSeq(limited_sql, e + 1, Len(limited_sql))
                              = SubSeq(c, k, Len(c))

\* C11: when the number of the first LIMIT <number> occurrence of the
\* comment-stripped, terminator-stripped text is at most max_limit, the result
\* is exactly that text: nothing before, in or after the occurrence differs
\* and the limit value is the one that was written.
C11_WithinBoundUnchanged ==
    pc = "returned" =>
        LET c == CleanedForLimit(sql)
        IN  \A i \in 1..Len(c), j \in 1..Len(c), k \in 1..(Len(c) + 1) :
                (FirstLimitOccurrence(c, i, j, k)
                   /\ IntOf(SubSeq(c, j, k - 1)) <= max_limit) =>
                    /\ limited_sql = c
                    /\ FirstLimitOccurrence(limited_sql, i, j, k)
                    /\ SubSeq(limited_sql, j, k - 1) = SubSeq(c, j, k - 1)

\* C11: "SELECT * FROM trips limit\n 5;" with max 100 came back without the
\* terminator and otherwise as written
C11_Witness ==
    /\ pc = "returned" /\ max_limit = 100
    /\ sql = <<"SELECT", " ", "*", " ", "FROM", " ", "trips",
               " ", "limit", "\n", " ", "5", ";">>
    /\ limited_sql = <<"SELECT", " ", "*", " ", "FROM", " ", "trips",
                       " ", "limit", "\n", " ", "5">>

\* C12: whatever the text and the two limits, enforce_limit returns ok = true
\* and no violations.
C12_EnforceLimitAlwaysOk ==
    pc = "returned" => (ok /\ limit_errors = <<>>)

\* C12: a text whose limit exceeded max_limit, with default_limit above
\* max_limit, was rewritten and still returned ok without violations
C12_Witness ==
    /\ pc = "returned" /\ ok /\ limit_errors = <<>>
    /\ default_limit > max_limit
    /\ sql = <<"SELECT", " ", "*", " ", "FROM", " ", "trips",
               " ", "LIMIT", " ", "5000">>
    /\ limited_sql # CleanedForLimit(sql)

\* C13: once a name is in the cache, a call of get_schema, of load_schema
\* without a path, of an accessor, of the grammar compiler or of a request
\* step for that name opens no file and leaves the name's cache slot as it
\* was; a slot that holds a definition changes only in a load_schema call for
\* that name that was given a path.
C13_NoRereadOnceLoaded ==
    [][ /\ (call'.path = NoPath /\ call'.name \in DOMAIN _schema_cache) =>
              /\ opened' = <<>>
              /\ _schema_cache'[call'.name] = _schema_cache[call'.name]
        /\ \A n \in DOMAIN _schema_cache :
              _schema_cache'[n] # _schema_cache[n] =>
                  /\ call'.op = "load_schema"
                  /\ call'.name = n
                  /\ call'.path # NoPath ]_vars

\* C13: load_schema("default") without a path returned the definition an
\* earlier load had taken from alt.json, without opening schema.json
C13_Witness ==
    /\ call = [op |-> "load_schema", name |-> DEFAULT_SCHEMA, path |-> NoPath]
    /\ opened = <<>>
    /\ result.raised = "none"
    /\ result.value = EventsSchema
    /\ _schema_cache[DEFAULT_SCHEMA] = EventsSchema
    /\ files[_resolve_schema_path(DEFAULT_SCHEMA, NoPath)] = JsonFile(TripsSchema)

\* a JSON value has the keys the source format requires
ExpectedShape(value) ==
    {"table", "columns", "datetime_column", "supported_aggregates"}
        \subseteq DOMAIN value

\* C14: a load_schema call whose source file is missing, is not JSON or is
\* JSON of another shape than the source format fails, and no cache slot
\* holds such a source.
C14_BadSourceRejected ==
    (call.op = "load_schema" /\ opened # <<>>) =>
        ((files[opened[1]].kind # "json" \/ ~ExpectedShape(files[opened[1]].value))
            => /\ result.raised # "none"
               /\ files[opened[1]].kind = "json" =>
                     \A n \in DOMAIN _schema_cache :
                         _schema_cache[n] # files[opened[1]].value)

\* C16: for every definition in the cache, get_default_limit is at most
\* get_max_limit, the accessor defaults included.
C16_DefaultAtMostMax ==
    \A n \in DOMAIN _schema_cache :
        get_default_limit(_schema_cache, n).value
            <= get_max_limit(_schema_cache, n).value

\* C17: for every definition in the cache, get_datetime_column is one of
\* get_column_names.
C17_DatetimeColumnListed ==
    \A n \in DOMAIN _schema_cache :
        (/\ get_datetime_column(_schema_cache, n).raised = "none"
         /\ get_column_names(_schema_cache, n).raised = "none") =>
            \E c \in 1..Len(get_column_names(_schema_cache, n).value) :
                get_column_names(_schema_cache, n).value[c]
                    = get_datetime_column(_schema_cache, n).value

C20_GrammarMatchesWhitelist ==
    (call.op = "validate_sql" /\ result.value = TRUE) =>
        /\ handed.TABLE = checked.table
        /\ handed.COLUMN = Join("|", checked.columns)

\* C15: while two threads load the same uncached name, the cache holds for
\* that name either nothing or the whole definition one load on its own
\* would store; every thread is returned that definition; and when both have
\* finished the cache is the cache one load on its own would leave.
C15_RaceLeavesSequentialResult ==
    /\ DOMAIN _schema_cache \subseteq
          DOMAIN load_schema(EmptyCache, DEFAULT_SCHEMA, NoPath).cache
    /\ \A n \in DOMAIN _schema_cache :
          _schema_cache[n]
              = load_schema(EmptyCache, DEFAULT_SCHEMA, NoPath).cache[n]
    /\ \A t \in Threads :
          thread_pc[t] = "done" =>
              observed[t] = load_schema(EmptyCache, DEFAULT_SCHEMA, NoPath).value
    /\ (\A t \in Threads : thread_pc[t] \in {"done", "raised"}) =>
          _schema_cache = load_schema(EmptyCache, DEFAULT_SCHEMA, NoPath).cache

\* C15: both threads read the file, both stored, and both were returned the
\* trips definition
C15_Witness ==
    /\ \A t \in Threads : thread_pc[t] = "done" /\ observed[t] = TripsSchema
    /\ Len(opened) = Cardinality(Threads)
    /\ _schema_cache[DEFAULT_SCHEMA] = TripsSchema

\* C19: validate_sql reports every sentence of the grammar compiled for the
\* loaded schema valid.
C19_GrammarSentencesValid ==
    pc \in {"returned", "raised"} => (pc = "returned" /\ is_valid)

\* a forbidden keyword is a lexeme of s, in any letter case
ForbiddenLexemeIn(s) ==
    \E i \in 1..Len(s), f \in 1..Len(FORBIDDEN_KEYWORDS) :
        Upper(s[i]) = FORBIDDEN_KEYWORDS[f]

\* the violations the forbidden-keyword scan recorded
KeywordViolations ==
    { e \in 1..Len(errors) : errors[e].msg = "Forbidden keyword" }

\* C21: the keyword scan sees the text with its comments removed: a text
\* whose forbidden keywords all lie inside comments gets no forbidden-keyword
\* violation, and a text that holds comments and, outside them, a forbidden
\* keyword as a whole word gets a forbidden-keyword violation.
C21_CommentsHideNoKeyword ==
    pc # "call_validate_sql" =>
        /\ ~ForbiddenLexemeIn(_strip_comments(sql)) => KeywordViolations = {}
        /\ (sql # _strip_comments(sql) /\ HasForbiddenWord(_strip_comments(sql)))
              => (pc = "returned" /\ KeywordViolations # {})

\* the whitelist each terminal of the grammar is built from
TerminalWhitelists(cache, name) ==
    [COLUMN |-> get_column_names(cache, name).value,
     AGG_COLUMN |-> get_aggregatable_columns(cache, name).value,
     GROUP_COLUMN |-> get_groupable_columns(cache, name).value,
     FILTER_COLUMN |-> get_filterable_columns(cache, name).value,
     FILTER_STRING_COLUMN |->
        SelectSeq(get_filterable_columns(cache, name).value,
                  LAMBDA col : IsFilterableString(cache, name, col)),
     FILTER_NUMERIC_COLUMN |->
        SelectSeq(get_filterable_columns(cache, name).value,
                  LAMBDA col : IsFilterableNumeric(cache, name, col)),
     AGG_FUNC |-> get_supported_aggregates(cache, name).value,
     STRING_VALUE |->
        FilterValues(cache, name, get_filterable_columns(cache, name).value),
     DATETIME_ANY |-> get_datetime_columns(cache, name).value]

\* a pattern that is a well-formed alternation and matches no word or number
\* of a statement
IsSentinel(pattern) ==
    /\ pattern # <<>>
    /\ \A a \in Alternatives(pattern) : ~IsWord(a)

\* generate_clickhouse_grammar has just returned a grammar
GrammarCompiled ==
    /\ call.op = "generate_clickhouse_grammar"
    /\ result.raised = "none"

\* C22: in a compiled grammar every terminal whose whitelist is empty is a
\* sentinel: a non-empty pattern that matches no token of a statement.
C22_EmptyWhitelistSentinel ==
    GrammarCompiled =>
        \A t \in DOMAIN TerminalWhitelists(_schema_cache, call.name) :
            TerminalWhitelists(_schema_cache, call.name)[t] = <<>>
                => IsSentinel(result.value[t])

\* the names of a list of column definitions
Names(cols) == [i \in 1..Len(cols) |-> cols[i].name]

\* the declared types that start with "string", and those that start with
\* int, uint, float or decimal, in any letter case
StringTypes == {"String"}
NumericTypes == {"UInt8", "Float64", "INT32", "Decimal(10,2)"}

\* the filterable columns of a definition with allowed values and a string type
StringEqualityColumns(schema) ==
    SelectSeq(schema.columns,
              LAMBDA col : /\ col.filterable
                           /\ col.allowed_values # <<>>
                           /\ col.type \in StringTypes)

\* the filterable columns of a definition with a numeric type
NumericEqualityColumns(schema) ==
    SelectSeq(schema.columns,
              LAMBDA col : col.filterable /\ col.type \in NumericTypes)

\* the allowed values of the columns cols, in order
AllowedValuesOf(cols) ==
    Flatten([i \in 1..Len(cols) |-> cols[i].allowed_values])

\* the set of elements of a list
Range(list) == { list[i] : i \in 1..Len(list) }

\* C23: the grammar's string-equality columns are the filterable columns with
\* allowed values and a string type, its numeric-equality columns are the
\* filterable columns with a numeric type, the two are disjoint subsets of
\* the filterable columns, and its literals are the allowed values of the
\* string-equality columns.
C23_FilterablePartition ==
    GrammarCompiled =>
        /\ result.value.FILTER_STRING_COLUMN
              = PatternOrNone(Names(StringEqualityColumns(_schema_cache[call.name])))
        /\ result.value.FILTER_NUMERIC_COLUMN
              = PatternOrNone(Names(NumericEqualityColumns(_schema_cache[call.name])))
        /\ result.value.STRING_VALUE
              = PatternOrNone(AllowedValuesOf(
                                 StringEqualityColumns(_schema_cache[call.name])))
        /\ Range(TerminalWhitelists(_schema_cache, call.name).FILTER_STRING_COLUMN)
              \cap Range(TerminalWhitelists(_schema_cache, call.name).FILTER_NUMERIC_COLUMN)
              = {}
        /\ Range(TerminalWhitelists(_schema_cache, call.name).FILTER_STRING_COLUMN)
              \cup Range(TerminalWhitelists(_schema_cache, call.name).FILTER_NUMERIC_COLUMN)
              \subseteq Range(TerminalWhitelists(_schema_cache, call.name).FILTER_COLUMN)

\* C23: a grammar was compiled for a string column and a numeric column that
\* both carry allowed values; only the string column's values are literals
C23_Witness ==
    /\ GrammarCompiled
    /\ result.value.FILTER_STRING_COLUMN = <<"kind">>
    /\ result.value.FILTER_NUMERIC_COLUMN = <<"payment_type">>
    /\ result.value.STRING_VALUE = <<"click">>

\* at most rate_limit_requests accepted requests of one client fall in any
\* rate_limit_window seconds: of rate_limit_requests + 1 requests accepted
\* in a row, the last is at least a window later than the first
WithinRate(times) ==
    Len(times) > rate_limit_requests =>
        times[Len(times)] - times[Len(times) - rate_limit_requests]
            >= rate_limit_window

\* C24: a /query request is accepted only if that leaves every client with
\* at most RATE_LIMIT_REQUESTS accepted requests in any RATE_LIMIT_WINDOW
\* seconds; a rejected request is answered 429, adds no timestamp to the
\* store and does not go on to SQL generation.
C24_RateLimited ==
    [][ (pc = "idle" /\ pc' # "idle") =>
            /\ \A ip \in DOMAIN accepted' : WithinRate(accepted'[ip])
            /\ response' = "429" =>
                  /\ pc' = "done"
                  /\ accepted' = accepted
                  /\ \A ip \in DOMAIN rate_limit_store :
                        Len(rate_limit_store'[ip]) <= Len(rate_limit_store[ip])
      ]_vars

\* the exceptions of a load whose file is missing or is not JSON
LoadFailures == {"FileNotFoundError", "JSONDecodeError"}

\* C25: a call that fails in loading a schema file leaves the cache as it
\* was, and every name cached before is still returned its definition by
\* get_schema and the accessors; no call removes an entry; a load touches no
\* entry of another name.
C25_FailedLoadKeepsCache ==
    [][ /\ DOMAIN _schema_cache \subseteq DOMAIN _schema_cache'
        /\ result'.raised \in LoadFailures =>
              /\ _schema_cache' = _schema_cache
              /\ \A n \in DOMAIN _schema_cache :
                    /\ get_schema(_schema_cache', n).value = _schema_cache[n]
                    /\ \A op \in AccessorNames :
                          Accessor(op, _schema_cache', n)
                              = Accessor(op, _schema_cache, n)
        /\ call'.op = "load_schema" =>
              \A n \in DOMAIN _schema_cache \ {call'.name} :
                  _schema_cache'[n] = _schema_cache[n]
      ]_vars

\* C25: load_schema with the path of a file that is not JSON failed for a
\* name whose definition was cached, and the definition is still there
C25_Witness ==
    /\ call.op = "load_schema"
    /\ call.path = AltPath
    /\ result.raised = "JSONDecodeError"
    /\ call.name \in DOMAIN _schema_cache
    /\ _schema_cache[call.name] = TripsSchema

\* C26: with default_limit <= max_limit, enforce_limit applied to the text it
\* returned, with the same limits, returns that text unchanged.
C26_EnforceLimitIdempotent ==
    (pc = "returned" /\ ok /\ default_limit <= max_limit) =>
        enforce_limit(limited_sql, default_limit, max_limit).sql = limited_sql

\* C26 (amended): with default_limit <= max_limit, enforce_limit applied to
\* the text it returned, with the same limits, returns that text unchanged
\* whenever the returned text neither begins nor ends with whitespace.
C26_IdempotentOnTrimmed ==
    (pc = "returned" /\ ok /\ default_limit <= max_limit
        /\ strip(limited_sql) = limited_sql) =>
        enforce_limit(limited_sql, default_limit, max_limit).sql = limited_sql

\* C26: a text with two LIMIT clauses above max_limit and a trailing
\* semicolon was rewritten, and the rewritten text is reproduced
C26_Witness ==
    /\ pc = "returned" /\ ok /\ default_limit <= max_limit
    /\ sql # <<>> /\ sql[Len(sql)] = ";"
    /\ limited_sql = <<"LIMIT", " ", Str(max_limit), " ", "LIMIT", " ",
                       Str(max_limit)>>
    /\ enforce_limit(limited_sql, default_limit, max_limit).sql = limited_sql

====
